---- MODULE Spec2Model ----
(***************************************************************************)
(* A model of the intrusive red-black tree of include/red_black_tree.h     *)
(* together with the caller protocol its class documentation prescribes.   *)
(* Nodes live in an arena of caller-owned objects that are kept            *)
(* alive for the whole run; a pointer is a node index, NULL is 0.          *)
(* The other components of the collection (hash table, union-find, bloom   *)
(* filter, KMP search, Huffman coding) are modelled beside it, each with   *)
(* its own variables and its own specification; while one component runs,  *)
(* the others stay in their constructed state.                             *)
(***************************************************************************)
EXTENDS Integers, Sequences, FiniteSets, TLC

\* ------------------------------------------------------------------ bounds
\* Nodes the caller may construct in SpecRB, in SpecRBDeep and in SpecRBTest.
NumNodes == 5
DeepNodes == 7
TestNodes == 7
\* Hash table: keys 0..MaxKey, and how many Nodes one run may create with new.
MaxKey == 4
MaxAlloc == 3
\* The largest number of elements a reserve call asks for.
MaxReserve == 3
\* Union-find: the largest size, and the largest rank a merge may produce.
MaxSize == 3
MaxRank == 3
\* KMP search: the longest text and the longest pattern.
MaxStr == 4
MaxPat == 5
\* Huffman coding: the number of symbols and the longest symbol sequence.
MaxSyms == 3
MaxLen == 6

\* --------------------------------------------------------------- constants
NULL == 0
\* BloomFilter<int, 1000>: the number of bits; BloomFilterPolicy of the default.
capacity == 1000
bits_per_item == 10
Black == "Black"
Red == "Red"
Left == "Left"
Right == "Right"

VARIABLES
    color,      \* color[n]  : RedBlackTree::color of node n
    left,       \* left[n]   : RedBlackTree::left
    right,      \* right[n]  : RedBlackTree::right
    parent,     \* parent[n] : RedBlackTree::parent
    root,       \* the caller's root handle (NULL when the caller holds no tree)
    members,    \* nodes the caller has inserted and not removed
    created,    \* how many nodes the caller has constructed: nodes 1..created exist
    phase,      \* "build": only insertions so far; "drain": insertions, then only
                \* removals; "mixed": an insertion followed a removal
    status,     \* "ok", or how the last call ended: "crash" (null dereference), "hang"
    lastOp      \* what the last completed call was (history, read by the properties)

\* The arena: the nodes that exist or may still be constructed.
Nodes == DOMAIN color
ArenaSize(h) == Cardinality(DOMAIN h.parent)

rbvars == <<color, left, right, parent, root, members, created, phase, status, lastOp>>

\* The state of one HashTable<int, int> and of the Nodes it has created.
VARIABLES
    buckets,      \* HashTable::buckets; bucket i of the code is buckets[i + 1]
    nr_elements,  \* HashTable::nr_elements
    node,         \* node[p]: the Node at address p: its pair (key, value), its
                  \* next pointer, and whether it is allocated (live)
    allocated,    \* how many Nodes have been created with new: addresses 1..allocated
    htOp          \* the last call on the table and what it returned (history)

htvars == <<buckets, nr_elements, node, allocated, htOp>>

\* The state of one UnionFind<int>.
VARIABLES
    uf,        \* its members: uf.parent[i] and uf.rank[i] for the indices 0..size()-1
    ufMerged,  \* ufMerged[i]: the indices linked to i by a chain of the merge
               \* calls made so far, i itself included (history)
    ufOp       \* the last call on it (history)

ufvars == <<uf, ufMerged, ufOp>>

\* The state of one BloomFilter<int, capacity>.
VARIABLES
    bits,        \* BloomFilter::bits, as the set of the positions that are set
    bfInserted   \* the items insert() was called with (history)

bfvars == <<bits, bfInserted>>

\* One call of kmp_str_find, statement by statement.
VARIABLES
    kmp   \* the arguments str and pat, the lps table being built, the locals
          \* i, j and it of the running loop, and where the call stands (pc)

kmpvars == <<kmp>>

\* One run of build_huffman_tree, a HuffmanEncoder and a HuffmanDecoder.
VARIABLES
    syms,      \* the symbol sequence the tree is built from and that is encoded
    min_heap,  \* build_huffman_tree: the trees in the priority queue
    tree,      \* the tree build_huffman_tree returned
    encoder,   \* HuffmanEncoder: table, off_left, unwritten_bits, the bytes put
               \* to os, and how many symbols the caller has put (done)
    decoder,   \* HuffmanDecoder: curr, off_left, unread_bits, the bytes of is and
               \* the read position in it, and what the get_sym calls returned (out)
    hfpc       \* where the run stands: "build", "encode", "decode"; "idle"

hfvars == <<syms, min_heap, tree, encoder, decoder, hfpc>>

vars == <<rbvars, htvars, ufvars, bfvars, kmpvars, hfvars>>

\* What a component leaves alone: the variables of all the others.
not_rb == <<htvars, ufvars, bfvars, kmpvars, hfvars>>
not_ht == <<rbvars, ufvars, bfvars, kmpvars, hfvars>>
not_uf == <<rbvars, htvars, bfvars, kmpvars, hfvars>>
not_bf == <<rbvars, htvars, ufvars, kmpvars, hfvars>>
not_kmp == <<rbvars, htvars, ufvars, bfvars, hfvars>>
not_hf == <<rbvars, htvars, ufvars, bfvars, kmpvars>>

\* An address that holds no Node (not yet created, or deleted).
FreeNode == [key |-> 0, value |-> 0, next |-> NULL, live |-> FALSE]

HtNoOp == [op |-> "none", key |-> 0, value |-> 0, inserted |-> FALSE,
           elem |-> NULL, pos |-> 0, size |-> 0]

\* HashTable(): one empty bucket, no element.
HtInit ==
    /\ buckets = <<NULL>>
    /\ nr_elements = 0
    /\ node = [p \in 1..MaxAlloc |-> FreeNode]
    /\ allocated = 0
    /\ htOp = HtNoOp

\* The heap as one value: the four fields of every node, how the running call
\* stands (st), and two records of what the call did, kept for the properties:
\* rot counts the rotations, log lists the fix-up cases taken.
Heap == [color |-> color, left |-> left, right |-> right, parent |-> parent,
         st |-> "ok", rot |-> 0, log |-> <<>>]

Crash(h) == [h EXCEPT !.st = "crash"]
Hang(h) == [h EXCEPT !.st = "hang"]
Log(h, what) == [h EXCEPT !.log = Append(h.log, what)]

\* ------------------------------------------------------- small accessors
is_black(h, n) == h.color[n] = Black
is_red(h, n) == h.color[n] = Red
is_root(h, n) == h.parent[n] = NULL
is_left(h, n) == h.parent[n] = NULL \/ h.left[h.parent[n]] = n
opposite(dir) == IF dir = Left THEN Right ELSE Left
get_dir(h, n) == IF is_left(h, n) THEN Left ELSE Right
get_child(h, n, dir) == IF dir = Left THEN h.left[n] ELSE h.right[n]
\* assignment through the reference get_child(dir) returns
set_child(h, n, dir, v) ==
    IF dir = Left THEN [h EXCEPT !.left[n] = v] ELSE [h EXCEPT !.right[n] = v]

\* get_root: walk the parent links to the top.  A walk longer than the arena
\* has revisited a node: the loop never ends.
RECURSIVE get_root_walk(_, _, _)
get_root_walk(h, n, fuel) ==
    IF is_root(h, n) THEN [st |-> "ok", node |-> n]
    ELSE IF fuel = 0 THEN [st |-> "hang", node |-> NULL]
    ELSE get_root_walk(h, h.parent[n], fuel - 1)

get_root(h, n) ==
    IF n = NULL THEN [st |-> "crash", node |-> NULL] ELSE get_root_walk(h, n, ArenaSize(h))

\* --------------------------------------------------------------- rotate
\* rotate<dir>() on node n.  Each operator below is one group of statements
\* and takes the heap the statements before it left.
\* The rotation that leaves the child link of the node's parent as it was.
rotate_relink_skipped(h, n, dir) == h

\* if (parent) parent->get_child(get_dir()) = opposite_dir_child;
rotate_relink(h, n, dir) ==
    IF h.parent[n] # NULL
    THEN set_child(h, h.parent[n], get_dir(h, n), get_child(h, n, opposite(dir)))
    ELSE h

\* opposite_dir_child->parent = parent; parent = opposite_dir_child;
rotate_lift(h, n, dir) ==
    [h EXCEPT !.parent[get_child(h, n, opposite(dir))] = h.parent[n],
              !.parent[n] = get_child(h, n, opposite(dir)),
              !.rot = h.rot + 1]

\* opposite_dir_child = opposite_dir_child->get_child<dir>();
rotate_inner(h, n, dir) ==
    set_child(h, n, opposite(dir), get_child(h, get_child(h, n, opposite(dir)), dir))

\* if (opposite_dir_child) opposite_dir_child->parent = this;
rotate_inner_parent(h, n, dir) ==
    IF get_child(h, n, opposite(dir)) # NULL
    THEN [h EXCEPT !.parent[get_child(h, n, opposite(dir))] = n]
    ELSE h

\* parent->get_child<dir>() = this;
rotate_attach(h, n, dir) == set_child(h, h.parent[n], dir, n)

\* The child on the opposite side is dereferenced: a null one ends the run.
rotate(h, n, dir) ==
    IF get_child(h, n, opposite(dir)) = NULL THEN Crash(h)
    ELSE rotate_attach(
            rotate_inner_parent(
                rotate_inner(
                    rotate_lift(rotate_relink(h, n, dir), n, dir),
                    n, dir),
                n, dir),
            n, dir)

\* --------------------------------------------------------------- insert
insert_common(h, e, n) == [h EXCEPT !.parent[n] = e, !.color[n] = Red]

\* The red-uncle case that stops after recoloring instead of going up.
insert_red_uncle_stops(h, n, uncle) ==
    [h |-> Log([h EXCEPT !.color[uncle] = Black,
                         !.color[h.parent[n]] = Black,
                         !.color[h.parent[h.parent[n]]] = Red], "red_uncle"),
     next |-> NULL]

\* Red uncle: recolor and continue from the grandparent.
insert_red_uncle(h, n, uncle) ==
    [h |-> Log([h EXCEPT !.color[uncle] = Black,
                         !.color[h.parent[n]] = Black,
                         !.color[h.parent[h.parent[n]]] = Red], "red_uncle"),
     next |-> h.parent[h.parent[n]]]

\* The triangle case that continues from the node itself after the rotation.
insert_triangle_same_node(h, n) ==
    [h |-> Log(rotate(h, h.parent[n], opposite(get_dir(h, n))), "triangle"),
     next |-> n]

\* Black uncle, triangle: rotate the parent and continue from it.
insert_triangle(h, n) ==
    [h |-> Log(rotate(h, h.parent[n], opposite(get_dir(h, n))), "triangle"),
     next |-> h.parent[n]]

\* The line case without its two recolorings: rotation of the grandparent only.
insert_line_no_recolor(h, n) ==
    [h |-> Log(rotate(h, h.parent[h.parent[n]], opposite(get_dir(h, n))), "line"),
     next |-> NULL]

\* Black uncle, line: recolor, rotate the grandparent, stop.
insert_line(h, n) ==
    [h |-> Log(rotate([h EXCEPT !.color[h.parent[n]] = Black,
                                !.color[h.parent[h.parent[n]]] = Red],
                      h.parent[h.parent[n]], opposite(get_dir(h, n))), "line"),
     next |-> NULL]

\* One step of insertion fix-up at node n: the heap and the next node (NULL: stop).
insert_fixup_step(h, n) ==
    IF is_root(h, n) THEN [h |-> Log([h EXCEPT !.color[n] = Black], "root"), next |-> NULL]
    ELSE IF is_black(h, h.parent[n]) THEN [h |-> Log(h, "black_parent"), next |-> NULL]
    ELSE IF h.parent[h.parent[n]] = NULL THEN [h |-> Crash(h), next |-> NULL]
    ELSE
    LET parent_dir == get_dir(h, h.parent[n])
        uncle == get_child(h, h.parent[h.parent[n]], opposite(parent_dir))
    IN  IF uncle # NULL /\ is_red(h, uncle) THEN insert_red_uncle(h, n, uncle)
        ELSE IF parent_dir # get_dir(h, n) THEN insert_triangle(h, n)
        ELSE insert_line(h, n)

\* The fields a fix-up loop reads: the loop is deterministic in them, so
\* meeting the same fields at the same node a second time means it never ends.
LoopKey(h, n) == <<h.color, h.left, h.right, h.parent, n>>

\* while ((node = node->insert_fixup_step()));
RECURSIVE insert_fixup_loop(_, _, _)
insert_fixup_next(r, seen) ==
    IF r.h.st # "ok" \/ r.next = NULL THEN r.h
    ELSE insert_fixup_loop(r.h, r.next, seen)

insert_fixup_loop(h, n, seen) ==
    IF LoopKey(h, n) \in seen THEN Hang(h)
    ELSE insert_fixup_next(insert_fixup_step(h, n), seen \cup {LoopKey(h, n)})

insert_fixup(h, n) == insert_fixup_loop(h, n, {})

insert_left(h, e, n) == insert_fixup([insert_common(h, e, n) EXCEPT !.left[e] = n], n)

insert_right(h, e, n) == insert_fixup([insert_common(h, e, n) EXCEPT !.right[e] = n], n)

\* --------------------------------------------------------------- remove
\* if (!is_root()) parent->get_child(get_dir()) = replacer;
transplant_link(h, n, replacer) ==
    IF ~is_root(h, n) THEN set_child(h, h.parent[n], get_dir(h, n), replacer) ELSE h

\* transplant(replacer) on node n: the replacer takes n's parent and n's slot.
transplant(h, n, replacer) ==
    transplant_link([h EXCEPT !.parent[replacer] = h.parent[n]], n, replacer)

\* while (inorder_next->left) inorder_next = inorder_next->left;
RECURSIVE leftmost(_, _, _)
leftmost(h, n, fuel) ==
    IF h.left[n] = NULL THEN [st |-> "ok", node |-> n]
    ELSE IF fuel = 0 THEN [st |-> "hang", node |-> NULL]
    ELSE leftmost(h, h.left[n], fuel - 1)

\* The in-order successor remove() computes for a node with two children.
inorder_next(h, z) == leftmost(h, h.right[z], ArenaSize(h))

\* parent = inorder_next; right = parent->right; parent->right = this;
swap_direct_links(h, z, s) ==
    [h EXCEPT !.parent[z] = s, !.right[z] = h.right[s], !.right[s] = z]

\* The swap of remove() when the successor s is z's right child.
remove_swap_direct(h, z, s) == swap_direct_links(transplant(h, z, s), z, s)

\* std::swap(inorder_next->parent, parent);
swap_deep_parents(h, z, s) ==
    [h EXCEPT !.parent[s] = h.parent[z], !.parent[z] = h.parent[s]]

\* parent->left = this;
swap_deep_slot(h, z) == IF h.parent[z] = NULL THEN Crash(h)
                        ELSE [h EXCEPT !.left[h.parent[z]] = z]

\* left->parent = inorder_next; right->parent = inorder_next;
swap_deep_children(h, z, s) ==
    IF h.st # "ok" THEN h
    ELSE [h EXCEPT !.parent[h.left[z]] = s, !.parent[h.right[z]] = s]

\* std::swap(inorder_next->right, right);
swap_deep_rights(h, z, s) ==
    IF h.st # "ok" THEN h
    ELSE [h EXCEPT !.right[s] = h.right[z], !.right[z] = h.right[s]]

\* if (right) right->parent = this;
swap_deep_right_parent(h, z) ==
    IF h.st = "ok" /\ h.right[z] # NULL THEN [h EXCEPT !.parent[h.right[z]] = z] ELSE h

\* The swap of remove() when the successor s lies deeper in z's right subtree.
remove_swap_deep(h, z, s) ==
    swap_deep_right_parent(
        swap_deep_rights(
            swap_deep_children(swap_deep_slot(swap_deep_parents(h, z, s), z), z, s),
            z, s),
        z)

\* The end of the swap without the exchange of colors.
swap_finish_keeps_colors(h, z, s) ==
    IF h.st # "ok" THEN h
    ELSE [h EXCEPT !.left[s] = h.left[z], !.left[z] = NULL]

\* inorder_next->left = left; left = nullptr; std::swap(inorder_next->color, color);
swap_finish(h, z, s) ==
    IF h.st # "ok" THEN h
    ELSE [h EXCEPT !.left[s] = h.left[z], !.left[z] = NULL,
                   !.color[s] = h.color[z], !.color[z] = h.color[s]]

swap_with(h, z, f) ==
    IF f.st # "ok" THEN Hang(h)
    ELSE swap_finish(IF f.node = h.right[z] THEN remove_swap_direct(h, z, f.node)
                     ELSE remove_swap_deep(h, z, f.node),
                     z, f.node)

\* Lines 72-95 of remove(): nothing happens unless z has two children.
remove_swap(h, z) ==
    IF h.left[z] = NULL \/ h.right[z] = NULL THEN h
    ELSE swap_with(h, z, inorder_next(h, z))

\* Red sibling: recolor, rotate the parent toward x, retry at x.
remove_red_sibling(h, x, sibling, dir) ==
    [h |-> Log(rotate([h EXCEPT !.color[sibling] = Black, !.color[h.parent[x]] = Red],
                      h.parent[x], dir), "red_sibling"),
     next |-> x]

\* Black sibling with both children black: recolor, move up.
remove_black_children(h, x, sibling) ==
    [h |-> Log([h EXCEPT !.color[sibling] = Red], "black_children"), next |-> h.parent[x]]

\* Black sibling whose child on the sibling's own side is black (the other red).
remove_near_red(h, x, sibling, dir) ==
    IF get_child(h, sibling, dir) = NULL THEN [h |-> Crash(h), next |-> NULL]
    ELSE [h |-> Log(rotate([h EXCEPT !.color[get_child(h, sibling, dir)] = Black,
                                     !.color[sibling] = Red],
                           sibling, opposite(dir)), "near_red"),
          next |-> x]

\* if (parent->parent->is_root()) return parent->parent; else return nullptr;
far_red_next(h, x) ==
    IF h.st # "ok" THEN [h |-> h, next |-> NULL]
    ELSE IF h.parent[x] = NULL \/ h.parent[h.parent[x]] = NULL
    THEN [h |-> Crash(h), next |-> NULL]
    ELSE IF is_root(h, h.parent[h.parent[x]])
    THEN [h |-> h, next |-> h.parent[h.parent[x]]]
    ELSE [h |-> h, next |-> NULL]

\* Black sibling whose child on the sibling's own side is red.
remove_far_red(h, x, sibling, dir) ==
    far_red_next(
        Log(rotate([h EXCEPT !.color[sibling] = h.color[h.parent[x]],
                             !.color[h.parent[x]] = Black,
                             !.color[get_child(h, sibling, opposite(dir))] = Black],
                   h.parent[x], dir), "far_red"),
        x)

\* One step of removal fix-up at node x: the heap and the next node (NULL: stop).
remove_fixup_step(h, x) ==
    IF is_root(h, x) \/ is_red(h, x)
    THEN [h |-> Log([h EXCEPT !.color[x] = Black], "root_or_red"), next |-> NULL]
    ELSE
    LET dir == get_dir(h, x)
        sibling_dir == opposite(dir)
        sibling == get_child(h, h.parent[x], sibling_dir)
    IN  IF sibling = NULL THEN [h |-> Crash(h), next |-> NULL]
        ELSE IF is_red(h, sibling) THEN remove_red_sibling(h, x, sibling, dir)
        ELSE IF /\ (h.left[sibling] = NULL \/ is_black(h, h.left[sibling]))
                /\ (h.right[sibling] = NULL \/ is_black(h, h.right[sibling]))
        THEN remove_black_children(h, x, sibling)
        ELSE IF \/ get_child(h, sibling, sibling_dir) = NULL
                \/ is_black(h, get_child(h, sibling, sibling_dir))
        THEN remove_near_red(h, x, sibling, dir)
        ELSE remove_far_red(h, x, sibling, dir)

\* while ((node = node->remove_fixup_step()));
RECURSIVE remove_fixup_loop(_, _, _)
remove_fixup_next(r, seen) ==
    IF r.h.st # "ok" \/ r.next = NULL THEN r.h
    ELSE remove_fixup_loop(r.h, r.next, seen)

remove_fixup_loop(h, n, seen) ==
    IF LoopKey(h, n) \in seen THEN Hang(h)
    ELSE remove_fixup_next(remove_fixup_step(h, n), seen \cup {LoopKey(h, n)})

remove_fixup(h, n) == remove_fixup_loop(h, n, {})

\* Lines 97-108 of remove(): the node that takes z's place (z itself, as a
\* temporary NIL, when z has no child) ...
remove_replacer(h, z) ==
    IF h.left[z] # NULL THEN h.left[z]
    ELSE IF h.right[z] # NULL THEN h.right[z]
    ELSE z

\* ... and z's only child spliced to z's parent.
remove_detach(h, z) ==
    IF h.left[z] # NULL
    THEN [transplant(h, z, h.left[z]) EXCEPT !.left[z] = NULL]
    ELSE IF h.right[z] # NULL
    THEN [transplant(h, z, h.right[z]) EXCEPT !.right[z] = NULL]
    ELSE h

\* if (color == Color::Black) replacer_node->remove_fixup();
remove_rebalance(h, z, replacer_node) ==
    IF h.color[z] = Black THEN remove_fixup(h, replacer_node) ELSE h

\* if (this == replacer_node && !is_root()) parent->get_child(get_dir()) = nullptr;
remove_unlink(h, z, replacer_node) ==
    IF z = replacer_node /\ ~is_root(h, z)
    THEN set_child(h, h.parent[z], get_dir(h, z), NULL)
    ELSE h

\* Lines 113-120 of remove(): blacken the replacer, reset z.
remove_reset(h, z, replacer_node) ==
    [remove_unlink([h EXCEPT !.color[replacer_node] = Black, !.color[z] = Black],
                   z, replacer_node)
        EXCEPT !.parent[z] = NULL]

remove_finish(h, z, replacer_node) ==
    IF h.st # "ok" THEN h ELSE remove_reset(h, z, replacer_node)

\* Lines 97-121 of remove(): splice z out, rebalance, reset z.
remove_splice(h, z) ==
    IF h.st # "ok" THEN h
    ELSE remove_finish(remove_rebalance(remove_detach(h, z), z, remove_replacer(h, z)),
                       z, remove_replacer(h, z))

remove(h, z) == remove_splice(remove_swap(h, z), z)

\* ------------------------------------------------------------ the caller
NoOp == [op |-> "none", node |-> NULL, at |-> NULL, kids |-> 0, path |-> "none",
         wasRoot |-> FALSE, rot |-> 0, log |-> <<>>]

\* Every node of an arena of k nodes is in its constructed state.
InitArena(k) ==
    /\ color = [n \in 1..k |-> Black]
    /\ left = [n \in 1..k |-> NULL]
    /\ right = [n \in 1..k |-> NULL]
    /\ parent = [n \in 1..k |-> NULL]
    /\ root = NULL
    /\ members = {}
    /\ created = 0
    /\ phase = "build"
    /\ status = "ok"
    /\ lastOp = NoOp

\* UnionFind(): size 0.
UfIdle ==
    /\ uf = [parent |-> <<>>, rank |-> <<>>]
    /\ ufMerged = <<>>
    /\ ufOp = [op |-> "none", x |-> 0, y |-> 0]

\* BloomFilter(): std::bitset<capacity> bits {}.
BfIdle ==
    /\ bits = {}
    /\ bfInserted = {}

\* No call of kmp_str_find is running.
KmpIdle == kmp = [pc |-> "idle"]

\* No tree is being built and no encoder or decoder exists.
HfIdle ==
    /\ syms = <<>>
    /\ min_heap = {}
    /\ tree = <<>>
    /\ encoder = <<>>
    /\ decoder = <<>>
    /\ hfpc = "idle"

\* Every component but c is in its constructed state.
Others(c) ==
    /\ IF c = "hf" THEN TRUE ELSE HfIdle
    /\ IF c = "rb" THEN TRUE ELSE InitArena(0)
    /\ IF c = "ht" THEN TRUE ELSE HtInit
    /\ IF c = "uf" THEN TRUE ELSE UfIdle
    /\ IF c = "bf" THEN TRUE ELSE BfIdle
    /\ IF c = "kmp" THEN TRUE ELSE KmpIdle

Init == InitArena(NumNodes) /\ Others("rb")
InitDeep == InitArena(DeepNodes) /\ Others("rb")

\* The caller's statement after an operation that produced heap h:
\* root = r->get_root().  When the operation or the walk does not return
\* (null dereference, endless loop) the run ends there: only status and
\* lastOp record it.
Finish(h, r, mem, info) ==
    LET g == IF h.st # "ok" THEN [st |-> h.st, node |-> NULL]
             ELSE IF r = NULL THEN [st |-> "ok", node |-> NULL]
             ELSE get_root(h, r)
    IN  /\ status' = g.st
        /\ lastOp' = [info EXCEPT !.rot = h.rot, !.log = h.log]
        /\ IF g.st = "ok"
           THEN /\ color' = h.color
                /\ left' = h.left
                /\ right' = h.right
                /\ parent' = h.parent
                /\ root' = g.node
                /\ members' = mem
           ELSE UNCHANGED <<color, left, right, parent, root, members>>
        /\ UNCHANGED not_rb

Inserting == phase' = (IF phase = "build" THEN "build" ELSE "mixed")
Removing == phase' = (IF phase = "build" THEN "drain" ELSE phase)

\* create_node(v): the next node of the arena, in its constructed state.  A
\* node is constructed once and, once removed, is not inserted again.
NewNode == created + 1

\* root = create_node(v): the caller starts a tree with a single node.
CreateRoot ==
    /\ status = "ok"
    /\ root = NULL
    /\ NewNode \in Nodes
    /\ root' = NewNode
    /\ members' = members \cup {NewNode}
    /\ created' = created + 1
    /\ Inserting
    /\ lastOp' = [NoOp EXCEPT !.op = "create", !.node = NewNode]
    /\ UNCHANGED <<color, left, right, parent, status>>
    /\ UNCHANGED not_rb

\* e->insert_left(create_node(v)); root = root->get_root();
InsertLeft(e) ==
    /\ status = "ok"
    /\ root # NULL
    /\ e \in members
    /\ NewNode \in Nodes
    /\ left[e] = NULL
    /\ created' = created + 1
    /\ Inserting
    /\ Finish(insert_left(Heap, e, NewNode), root, members \cup {NewNode},
              [NoOp EXCEPT !.op = "insert_left", !.node = NewNode, !.at = e])

\* e->insert_right(create_node(v)); root = root->get_root();
InsertRight(e) ==
    /\ status = "ok"
    /\ root # NULL
    /\ e \in members
    /\ NewNode \in Nodes
    /\ right[e] = NULL
    /\ created' = created + 1
    /\ Inserting
    /\ Finish(insert_right(Heap, e, NewNode), root, members \cup {NewNode},
              [NoOp EXCEPT !.op = "insert_right", !.node = NewNode, !.at = e])

NumKids(z) == (IF left[z] # NULL THEN 1 ELSE 0) + (IF right[z] # NULL THEN 1 ELSE 0)

SwapPath(z) ==
    IF left[z] = NULL \/ right[z] = NULL THEN "none"
    ELSE LET f == inorder_next(Heap, z)
         IN  IF f.st # "ok" THEN "none"
             ELSE IF f.node = right[z] THEN "direct" ELSE "deep"

RemoveInfo(z) ==
    [NoOp EXCEPT !.op = "remove", !.node = z, !.kids = NumKids(z),
                 !.path = SwapPath(z), !.wasRoot = (z = root)]

\* z->remove(); root = root->get_root();   for a node that is not the root
RemoveInner(z) ==
    /\ status = "ok"
    /\ root # NULL
    /\ z \in members
    /\ z # root
    /\ created' = created
    /\ Removing
    /\ Finish(remove(Heap, z), root, members \ {z}, RemoveInfo(z))

\* Removing a root that has children: the caller keeps one of the children
\* (kept) and calls get_root() on it afterwards.
RemoveRoot(kept) ==
    /\ status = "ok"
    /\ root \in members
    /\ kept \in {left[root], right[root]}
    /\ created' = created
    /\ Removing
    /\ Finish(remove(Heap, root), kept, members \ {root},
              [RemoveInfo(root) EXCEPT !.at = kept])

\* Removing a root without children removes the last node of the tree.
RemoveLast ==
    /\ status = "ok"
    /\ root \in members
    /\ left[root] = NULL
    /\ right[root] = NULL
    /\ created' = created
    /\ Removing
    /\ Finish(remove(Heap, root), NULL, members \ {root}, RemoveInfo(root))

Next ==
    \/ CreateRoot
    \/ \E e \in Nodes : InsertLeft(e)
    \/ \E e \in Nodes : InsertRight(e)
    \/ \E z \in Nodes : RemoveInner(z)
    \/ \E k \in Nodes : RemoveRoot(k)
    \/ RemoveLast

SpecRB == Init /\ [][Next]_vars

\* A slice of the same caller on a larger arena: one tree is built with
\* insert_left only and then only taken apart.
NextDeep ==
    \/ CreateRoot /\ phase' = "build"
    \/ \E e \in Nodes : InsertLeft(e) /\ phase' = "build"
    \/ \E z \in Nodes : RemoveInner(z)
    \/ \E k \in Nodes : RemoveRoot(k)
    \/ RemoveLast

SpecRBDeep == InitDeep /\ [][NextDeep]_vars

\* The caller of the test fixture: a tree is built by insertions alone and at
\* most one node is then removed from it.
InitTest == InitArena(TestNodes) /\ Others("rb")
NextTest ==
    \/ phase = "build" /\ CreateRoot
    \/ \E e \in Nodes : phase = "build" /\ InsertLeft(e)
    \/ \E e \in Nodes : phase = "build" /\ InsertRight(e)
    \/ \E z \in Nodes : phase = "build" /\ RemoveInner(z)
    \/ \E k \in Nodes : phase = "build" /\ RemoveRoot(k)
    \/ phase = "build" /\ RemoveLast
SpecRBTest == InitTest /\ [][NextTest]_vars

\* ============================================================ hash table
\* include/hash_table.h, instantiated as HashTable<int, int> with the default
\* std::hash<int>, std::equal_to<int> and Power2RehashPolicy.

\* The table as one value.
Table == [buckets |-> buckets, nr_elements |-> nr_elements, node |-> node,
          allocated |-> allocated]

Keys == 0..MaxKey
\* The table never reads a value: Value() (0 for int) and one value that
\* differs from it stand for all of them.
Values == {0, 1}

\* std::hash<int> of libstdc++ returns its argument.
hasher(key) == key
key_equal(a, b) == a = b

bucket_count(t) == Len(t.buckets)
bucket_at(t, index) == t.buckets[index + 1]
bucket(t, key) == hasher(key) % bucket_count(t)

\* ---- Power2RehashPolicy, max_load_factor 0.75
\* ceil(nr_elements / 0.75F)
get_nr_buckets_for_elements(n) == (4 * n + 2) \div 3

\* std::bit_ceil: the smallest power of two that is not below n.
RECURSIVE bit_ceil_from(_, _)
bit_ceil_from(p, n) == IF p >= n THEN p ELSE bit_ceil_from(2 * p, n)
bit_ceil(n) == bit_ceil_from(1, n)

\* nr_buckets > penult_pow2 (2^63) does not happen for the sizes reached here.
next_nr_buckets(nr_buckets) == bit_ceil(nr_buckets)

\* The policy that looks at the elements stored and not at the pending inserts.
need_rehash_ignores_inserts(nr_buckets, n, nr_inserts) ==
    IF nr_buckets >= get_nr_buckets_for_elements(n)
    THEN [need |-> FALSE, nr |-> nr_buckets]
    ELSE [need |-> TRUE, nr |-> next_nr_buckets(get_nr_buckets_for_elements(n))]

need_rehash(nr_buckets, n, nr_inserts) ==
    IF nr_buckets >= get_nr_buckets_for_elements(n + nr_inserts)
    THEN [need |-> FALSE, nr |-> nr_buckets]
    ELSE [need |-> TRUE, nr |-> next_nr_buckets(get_nr_buckets_for_elements(n + nr_inserts))]

\* ---- buckets: circular lists
\* do { if (key_equal(key, node->next->pair.first)) return node; } while (node != bucket);
\* node is assigned once (node = bucket) and never advanced, so the condition
\* of the loop is false after its first pass.
find_node_in_bucket(t, key, b) ==
    IF b = NULL THEN NULL
    ELSE IF key_equal(key, t.node[t.node[b].next].key) THEN b
    ELSE NULL

\* The bucket afterwards (what the code returns) is bucket_at(result, index).
insert_node_into_bucket(t, index, new_node) ==
    IF bucket_at(t, index) # NULL
    THEN [t EXCEPT !.node[new_node].next = t.node[bucket_at(t, index)].next,
                   !.node[bucket_at(t, index)].next = new_node]
    ELSE [t EXCEPT !.buckets[index + 1] = new_node,
                   !.node[new_node].next = new_node]

\* The nodes of a circular list in the order a do-while from head visits them:
\* head, head->next, ... up to the node whose next is head.
RECURSIVE list_from(_, _, _, _)
list_from(t, head, n, fuel) ==
    IF fuel = 0 \/ t.node[n].next = head THEN <<n>>
    ELSE <<n>> \o list_from(t, head, t.node[n].next, fuel - 1)

bucket_nodes(t, index) ==
    IF bucket_at(t, index) = NULL THEN <<>>
    ELSE list_from(t, bucket_at(t, index), bucket_at(t, index), Len(t.node))

\* Every node of the table, bucket after bucket from index on.
RECURSIVE nodes_from(_, _)
nodes_from(t, index) ==
    IF index >= bucket_count(t) THEN <<>>
    ELSE bucket_nodes(t, index) \o nodes_from(t, index + 1)

bucket_size(t, index) == Len(bucket_nodes(t, index))

\* rehash: the loop over the old buckets.  Each node's old next is read before
\* the node is moved and a move writes only to nodes already moved, so the
\* nodes are moved in the order the old lists held them.
RECURSIVE rehash_move(_, _, _)
rehash_move(t, q, new_nr_buckets) ==
    IF q = <<>> THEN t
    ELSE rehash_move(
            insert_node_into_bucket(t, hasher(t.node[Head(q)].key) % new_nr_buckets, Head(q)),
            Tail(q), new_nr_buckets)

rehash_to(t, n) ==
    IF n = bucket_count(t) THEN t
    ELSE rehash_move([t EXCEPT !.buckets = [i \in 1..n |-> NULL]], nodes_from(t, 0), n)

rehash(t, new_nr_buckets) == rehash_to(t, IF new_nr_buckets = 0 THEN 1 ELSE new_nr_buckets)

\* ---- iterators: a bucket index and prev, the node before the element
iter_elem(t, it) == IF it.prev = NULL THEN NULL ELSE t.node[it.prev].next

\* for (; index < buckets.size() && !buckets[index]; ++index);
RECURSIVE skip_empty(_, _)
skip_empty(t, index) ==
    IF index < bucket_count(t) /\ bucket_at(t, index) = NULL THEN skip_empty(t, index + 1)
    ELSE index

iter_at(t, index) ==
    [index |-> index,
     prev |-> IF index < bucket_count(t) THEN bucket_at(t, index) ELSE NULL]

begin(t) == iter_at(t, skip_empty(t, 0))
end(t) == [index |-> 0, prev |-> NULL]
\* operator==: the iterators of one table are equal when their prev are.
iter_eq(a, b) == a.prev = b.prev

\* operator++ that leaves the bucket after one element.
iter_inc_leaves_bucket(t, it) == iter_at(t, skip_empty(t, it.index + 1))

\* operator++
iter_inc(t, it) ==
    IF t.node[it.prev].next # bucket_at(t, it.index)
    THEN [index |-> it.index, prev |-> t.node[it.prev].next]
    ELSE iter_at(t, skip_empty(t, it.index + 1))

\* ---- the public operations
find(t, key) ==
    [index |-> bucket(t, key),
     prev |-> find_node_in_bucket(t, key, bucket_at(t, bucket(t, key)))]

insert_rehash(t) ==
    IF need_rehash(bucket_count(t), t.nr_elements, 1).need
    THEN rehash(t, need_rehash(bucket_count(t), t.nr_elements, 1).nr)
    ELSE t

\* new Node(std::move(pair), nullptr)
new_node(t, key, value) ==
    [t EXCEPT !.allocated = t.allocated + 1,
              !.node[t.allocated + 1] =
                  [key |-> key, value |-> value, next |-> NULL, live |-> TRUE]]

\* insert(): the part after the key was not found, on the table t as
\* rehashed and with the new Node created.
insert_done(t, index) ==
    [t |-> [t EXCEPT !.nr_elements = t.nr_elements + 1],
     it |-> iter_at(t, index),
     inserted |-> TRUE]

insert_new(t, key) ==
    insert_done(insert_node_into_bucket(t, bucket(t, key), t.allocated), bucket(t, key))

insert(t, key, value) ==
    IF find(t, key).prev # NULL
    THEN [t |-> t, it |-> find(t, key), inserted |-> FALSE]
    ELSE insert_new(new_node(insert_rehash(t), key, value), key)

\* operator[](key) = value: insert(make_pair(key, Value())).first->second = value
subscript_store(r, value) ==
    [r EXCEPT !.t.node[iter_elem(r.t, r.it)].value = value]

subscript_assign(t, key, value) == subscript_store(insert(t, key, 0), value)

\* remove_node_from_bucket(buckets[index], prev_node), followed by delete.
removed_node(t, prev_node) == t.node[prev_node].next

remove_node_from_bucket(t, index, prev_node) ==
    IF t.node[prev_node].next = prev_node
    THEN [t EXCEPT !.buckets[index + 1] = NULL]
    ELSE [t EXCEPT !.buckets[index + 1] =
                       IF removed_node(t, prev_node) = bucket_at(t, index)
                       THEN t.node[removed_node(t, prev_node)].next
                       ELSE bucket_at(t, index),
                   !.node[prev_node].next = t.node[removed_node(t, prev_node)].next,
                   !.node[removed_node(t, prev_node)].next = NULL]

delete_node(t, n) == [t EXCEPT !.node[n] = FreeNode]

\* erase(it)
erase(t, it) ==
    [t |-> [delete_node(remove_node_from_bucket(t, it.index, it.prev),
                        removed_node(t, it.prev))
               EXCEPT !.nr_elements = t.nr_elements - 1],
     it |-> IF t.node[it.prev].next = it.prev THEN iter_inc(t, it) ELSE it]

\* erase(key): 1 when an element was erased, else 0
erase_key(t, key) ==
    IF iter_eq(find(t, key), end(t)) THEN [t |-> t, n |-> 0]
    ELSE [t |-> erase(t, find(t, key)).t, n |-> 1]

\* clear(): every node of every bucket is deleted, every bucket is set to null.
clear_keeps_count(t) ==
    [t EXCEPT !.buckets = [i \in 1..bucket_count(t) |-> NULL],
              !.node = [p \in DOMAIN t.node |->
                            IF \E i \in 1..Len(nodes_from(t, 0)) : nodes_from(t, 0)[i] = p
                            THEN FreeNode ELSE t.node[p]]]

clear(t) ==
    [t EXCEPT !.buckets = [i \in 1..bucket_count(t) |-> NULL],
              !.node = [p \in DOMAIN t.node |->
                            IF \E i \in 1..Len(nodes_from(t, 0)) : nodes_from(t, 0)[i] = p
                            THEN FreeNode ELSE t.node[p]],
              !.nr_elements = 0]

\* The reserve that rehashes to the asked number of buckets and leaves the
\* nodes in the buckets of the old count.
reserve_keeps_lists(t, n) ==
    IF get_nr_buckets_for_elements(n) > bucket_count(t)
    THEN [t EXCEPT !.buckets = [i \in 1..get_nr_buckets_for_elements(n) |->
                                   IF i <= bucket_count(t) THEN t.buckets[i] ELSE NULL]]
    ELSE t

\* reserve(nr_elements)
reserve(t, n) ==
    IF get_nr_buckets_for_elements(n) > bucket_count(t)
    THEN rehash(t, get_nr_buckets_for_elements(n))
    ELSE t

\* The elements in iteration order: *it for it = begin(); it != end(); ++it.
RECURSIVE iterate(_, _, _)
iterate(t, it, fuel) ==
    IF iter_eq(it, end(t)) \/ fuel = 0 THEN <<>>
    ELSE <<iter_elem(t, it)>> \o iterate(t, iter_inc(t, it), fuel - 1)

elements(t) == iterate(t, begin(t), Len(t.node) + 1)

\* begin() advanced i - 1 times: the iterator of the i-th element.
RECURSIVE iter_nth(_, _, _)
iter_nth(t, it, i) == IF i <= 1 THEN it ELSE iter_nth(t, iter_inc(t, it), i - 1)

\* it = begin(); while (it != end()) it = erase(it);   The table it ends with,
\* or a table with nr_elements -1 when the loop is still running after more
\* passes than there are nodes.
RECURSIVE erase_all(_, _, _)
erase_all(t, it, fuel) ==
    IF iter_eq(it, end(t)) THEN t
    ELSE IF fuel = 0 THEN [t EXCEPT !.nr_elements = -1]
    ELSE erase_all(erase(t, it).t, erase(t, it).it, fuel - 1)

\* ---- the caller of the table
HtApply(t, op) ==
    /\ buckets' = t.buckets
    /\ nr_elements' = t.nr_elements
    /\ node' = t.node
    /\ allocated' = t.allocated
    /\ htOp' = [op EXCEPT !.size = nr_elements]
    /\ UNCHANGED not_ht

\* The call returned r: the table it left and the iterator it gave back.
HtReturn(r, op) == HtApply(r.t, [op EXCEPT !.elem = iter_elem(r.t, r.it)])
HtReturnPair(r, op) == HtReturn(r, [op EXCEPT !.inserted = r.inserted])

\* auto [it, inserted] = hash_table.insert(std::make_pair(key, value));
HtInsert(key, value) ==
    /\ allocated < MaxAlloc
    /\ HtReturnPair(insert(Table, key, value),
                    [HtNoOp EXCEPT !.op = "insert", !.key = key, !.value = value])

\* hash_table[key] = value;
HtSubscript(key, value) ==
    /\ allocated < MaxAlloc
    /\ HtReturnPair(subscript_assign(Table, key, value),
                    [HtNoOp EXCEPT !.op = "subscript", !.key = key, !.value = value])

\* hash_table.erase(key);
HtErasedKey(r, op) == HtApply(r.t, [op EXCEPT !.inserted = (r.n = 1)])

HtEraseKey(key) ==
    HtErasedKey(erase_key(Table, key), [HtNoOp EXCEPT !.op = "erase_key", !.key = key])

\* it = hash_table.erase(it);  for the iterator of the pos-th element
HtErase(pos) ==
    /\ pos \in 1..Len(elements(Table))
    /\ HtReturn(erase(Table, iter_nth(Table, begin(Table), pos)),
                [HtNoOp EXCEPT !.op = "erase", !.pos = pos])

\* hash_table.clear();
HtClear ==
    HtApply(clear(Table), [HtNoOp EXCEPT !.op = "clear"])

\* hash_table.reserve(n);
HtReserve(n) ==
    HtApply(reserve(Table, n), [HtNoOp EXCEPT !.op = "reserve"])

InitHT == HtInit /\ Others("ht")

NextHT ==
    \/ \E key \in Keys, value \in Values : HtInsert(key, value)
    \/ \E key \in Keys, value \in Values : HtSubscript(key, value)
    \/ \E key \in Keys : HtEraseKey(key)
    \/ \E pos \in 1..MaxAlloc : HtErase(pos)
    \/ HtClear
    \/ \E n \in 0..MaxReserve : HtReserve(n)

SpecHT == InitHT /\ [][NextHT]_vars

\* ---------------------------------------------------------- union-find
\* UnionFind<int> of include/union_find.h.  A std::vector is a sequence:
\* element i of the code is element i + 1 here.

\* UnionFind(size)
UnionFind(n) == [parent |-> [i \in 1..n |-> i - 1], rank |-> [i \in 1..n |-> 1]]

size(u) == Len(u.parent)

\* find(p) const
RECURSIVE find_const(_, _)
find_const(u, p) == IF p # u.parent[p + 1] THEN find_const(u, u.parent[p + 1]) ELSE p

\* The find that stores p itself, and not the root, as the parent of p.
uf_find_detaches(u, p) ==
    [u |-> [u EXCEPT !.parent[p + 1] = p], r |-> find_const(u, p)]

\* find(p): the root, stored as the parent of p.
uf_find(u, p) ==
    [u |-> [u EXCEPT !.parent[p + 1] = find_const(u, p)], r |-> find_const(u, p)]

\* merge, from the swap on: x and y are the two roots found.
\*   rank[y] = rank[x] += !!(rank[x] == rank[y]);  parent[y] = parent[x] = x;
merge_roots(u, x, y) ==
    LET r == u.rank[x + 1] + (IF u.rank[x + 1] = u.rank[y + 1] THEN 1 ELSE 0)
    IN  [parent |-> [[u.parent EXCEPT ![x + 1] = x] EXCEPT ![y + 1] = x],
         rank |-> [[u.rank EXCEPT ![x + 1] = r] EXCEPT ![y + 1] = r]]

\*   if (rank[x] < rank[y]) std::swap(x, y);
merge_swap(u, x, y) ==
    IF u.rank[x + 1] < u.rank[y + 1] THEN merge_roots(u, y, x) ELSE merge_roots(u, x, y)

\* merge that leaves the object as the two find calls left it.
merge_only_finds(u, x, y) == uf_find(uf_find(u, x).u, y).u

\* merge(x, y)
merge(u, x, y) ==
    LET fx == uf_find(u, x)
        fy == uf_find(fx.u, y)
    IN  merge_swap(fy.u, fx.r, fy.r)

\* connected(x, y) const
connected(u, x, y) == find_const(u, x) = find_const(u, y)

\* resize that makes every index, old and new, its own set again.
resize_resets(u, n) == UnionFind(n)

\* resize(size)
resize(u, n) ==
    [parent |-> [i \in 1..n |-> IF i <= size(u) THEN u.parent[i] ELSE i - 1],
     rank |-> [i \in 1..n |-> IF i <= size(u) THEN u.rank[i] ELSE 1]]

\* ---- the caller of the union-find
UfApply(u, merged, op) ==
    /\ uf' = u
    /\ ufMerged' = merged
    /\ ufOp' = op
    /\ UNCHANGED not_uf

\* uf.merge(x, y), for indices below size()
UfMerge(x, y) ==
    /\ x < size(uf) /\ y < size(uf)
    /\ \A i \in 1..size(uf) : merge(uf, x, y).rank[i] <= MaxRank
    /\ UfApply(merge(uf, x, y),
               [i \in 1..size(uf) |->
                   IF ufMerged[i] \cap (ufMerged[x + 1] \cup ufMerged[y + 1]) # {}
                   THEN ufMerged[x + 1] \cup ufMerged[y + 1] ELSE ufMerged[i]],
               [op |-> "merge", x |-> x, y |-> y])

\* uf.find(p), for an index below size(); the history keeps the parent p had
\* before the call (what the call returns is the parent p has after it).
UfFind(p) ==
    /\ p < size(uf)
    /\ UfApply(uf_find(uf, p).u, ufMerged, [op |-> "find", x |-> p, y |-> uf.parent[p + 1]])

\* uf.resize(n), to a size that is not smaller
UfResize(n) ==
    /\ n >= size(uf)
    /\ UfApply(resize(uf, n),
               [i \in 1..n |-> IF i <= size(uf) THEN ufMerged[i] ELSE {i - 1}],
               [op |-> "resize", x |-> n, y |-> size(uf)])

\* UnionFind uf (n);
InitUF ==
    /\ \E n \in 0..MaxSize :
          /\ uf = UnionFind(n)
          /\ ufMerged = [i \in 1..n |-> {i - 1}]
    /\ ufOp = [op |-> "none", x |-> 0, y |-> 0]
    /\ Others("uf")

NextUF ==
    \/ \E x, y \in 0..(MaxSize - 1) : UfMerge(x, y)
    \/ \E p \in 0..(MaxSize - 1) : UfFind(p)
    \/ \E n \in 0..MaxSize : UfResize(n)

SpecUF == InitUF /\ [][NextUF]_vars

\* -------------------------------------------------------- bloom filter
\* BloomFilter<int, capacity> of include/bloom_filter.h with the default
\* hasher and policy.

\* The items the caller uses: those of the test, items whose hashes exceed
\* the capacity, and items whose bit positions coincide (15 and 1015, 0 and
\* 2000).
Items == {0, 15, 30, 40, 143, 286, 1015, 2000}

\* BloomFilterPolicy::get_nr_hashes with nr_hashes = 0
get_nr_hashes == (bits_per_item * 693 + 999) \div 1000
nr_hashes == get_nr_hashes

\* BloomFilterDefaultHasher: h1 = std::hash<int>(obj) = obj,
\* h2 = std::hash<size_t>(h1) = h1, hashes[i] = h1 + i * h2.  The items are
\* non-negative and small, so the sum stays below 2^64.
hashes(item) == [i \in 0..(nr_hashes - 1) |-> item + i * item]

\* insert that sets the bit of the first hash only.
bf_insert_one_bit(b, item) == b \cup {hashes(item)[0] % capacity}

\* insert(item)
bf_insert(b, item) == b \cup {hashes(item)[i] % capacity : i \in 0..(nr_hashes - 1)}

\* probably_contains(item)
probably_contains(b, item) == \A i \in 0..(nr_hashes - 1) : hashes(item)[i] % capacity \in b

\* definitely_missing(item)
definitely_missing(b, item) == ~probably_contains(b, item)

\* filter.insert(item)
BfInsert(item) ==
    /\ bits' = bf_insert(bits, item)
    /\ bfInserted' = bfInserted \cup {item}
    /\ UNCHANGED not_bf

InitBF == BfIdle /\ Others("bf")
NextBF == \E item \in Items : BfInsert(item)
SpecBF == InitBF /\ [][NextBF]_vars

\* ---------------------------------------------------------- KMP search
\* kmp_str_find(str, pat) of src/kmp_pattern_search.cpp with build_lps and
\* kmp_find_pattern_raw of include/kmp_pattern_search.h, one loop pass per
\* step.  Element i of str, pat and lps is element i + 1 here; the iterator
\* it is its distance from str.begin(); npos is -1.
Chars == {"a", "b"}
Strings(n) == UNION {[1..k -> Chars] : k \in 0..n}
npos == -1

\* kmp_find_pattern_raw(str_beg, str_end, pattern, pattern_size): the lps
\* vector is created with pattern_size zeros, and build_lps starts with
\* lps[0] = 0 and i = 1.
KmpCall(str, pat) ==
    [pc |-> "lps_for", str |-> str, pat |-> pat, lps |-> [k \in 1..Len(pat) |-> 0],
     i |-> 1, j |-> 0, it |-> 0, match |-> 0, result |-> 0]

\* kmp_str_find: pat.size() + match <= str.size() ? match : npos
kmp_str_find_result(k, match) ==
    IF Len(k.pat) + match <= Len(k.str) THEN match ELSE npos

\* The fallback j = lps[j] of both inner loops.  When lps[j] is j the pass
\* changes nothing and the loop repeats it for ever: the call hangs.
fallback(k) ==
    IF k.lps[k.j + 1] = k.j THEN [k EXCEPT !.pc = "hang"]
    ELSE [k EXCEPT !.j = k.lps[k.j + 1]]

\* build_lps: for (i = 1; i < size; ++i) { auto j = lps[i - 1]; ...
\* and, when the loop ends, the start of the scan: j = 0, it = str_beg.
build_lps_for(k) ==
    IF k.i < Len(k.pat) THEN [k EXCEPT !.j = k.lps[k.i], !.pc = "lps_while"]
    ELSE [k EXCEPT !.j = 0, !.it = 0, !.pc = "scan_for"]

\* build_lps: one pass of while (true)
build_lps_while(k) ==
    IF k.pat[k.i + 1] = k.pat[k.j + 1]
    THEN [k EXCEPT !.lps[k.i + 1] = k.j + 1, !.i = k.i + 1, !.pc = "lps_for"]
    ELSE IF k.j = 0
    THEN [k EXCEPT !.lps[k.i + 1] = 0, !.i = k.i + 1, !.pc = "lps_for"]
    ELSE fallback(k)

\* kmp_find_pattern_raw: for (; it != str_end && j < pattern_size; ++it)
\* and, when the loop ends, the returns of kmp_find_pattern (end_it -
\* match_len) and of kmp_str_find.
kmp_find_pattern_raw_for(k) ==
    IF k.it # Len(k.str) /\ k.j < Len(k.pat) THEN [k EXCEPT !.pc = "scan_while"]
    ELSE [k EXCEPT !.match = k.it - k.j,
                   !.result = kmp_str_find_result(k, k.it - k.j),
                   !.pc = "done"]

\* kmp_find_pattern_raw: one pass of while (true)
kmp_find_pattern_raw_while(k) ==
    IF k.str[k.it + 1] = k.pat[k.j + 1]
    THEN [k EXCEPT !.j = k.j + 1, !.it = k.it + 1, !.pc = "scan_for"]
    ELSE IF k.j = 0
    THEN [k EXCEPT !.it = k.it + 1, !.pc = "scan_for"]
    ELSE fallback(k)

\* The running call takes the step of the statement it stands at.
KmpStep(pc, next) ==
    /\ kmp.pc = pc
    /\ kmp' = next
    /\ UNCHANGED not_kmp

\* kmp_str_find(str, pat) for a text and a non-empty pattern
InitKMP ==
    /\ \E str \in Strings(MaxStr), pat \in Strings(MaxPat) \ {<<>>} : kmp = KmpCall(str, pat)
    /\ Others("kmp")

NextKMP ==
    \/ KmpStep("lps_for", build_lps_for(kmp))
    \/ KmpStep("lps_while", build_lps_while(kmp))
    \/ KmpStep("scan_for", kmp_find_pattern_raw_for(kmp))
    \/ KmpStep("scan_while", kmp_find_pattern_raw_while(kmp))

SpecKMP == InitKMP /\ [][NextKMP]_vars

\* ------------------------------------------------------ Huffman coding
\* include/huffman_coding.h for Symbol = int.  A HuffmanTree is a value: a
\* leaf is <<freq, symbol>>, a non-leaf is <<freq, left, right>>.  A byte is
\* its value 0..255 and a codeword is a sequence of the characters "0", "1".
Symbols == 0..(MaxSyms - 1)
nullopt == -1

\* HuffmanTree(freq, symbol)
HuffmanLeaf(freq, symbol) == <<freq, symbol>>
get_freq(t) == t[1]
\* HuffmanTree(left, right): freq is the sum of the two.
HuffmanNode(l, r) == <<get_freq(l) + get_freq(r), l, r>>
get_symbol(t) == IF Len(t) = 2 THEN t[2] ELSE nullopt
get_left(t) == t[2]
get_right(t) == t[3]

\* build_huffman_tree(begin, end): ++sym_freq[*it], one leaf for each symbol
\* that appears.
trees_storage(s) ==
    {HuffmanLeaf(Cardinality({i \in 1..Len(s) : s[i] = sym}), sym) :
        sym \in {s[i] : i \in 1..Len(s)}}

\* The top that may be any tree of the heap, whatever its frequency.
top_any(heap) == heap

\* min_heap.top(): a tree of the least frequency.  Which of several such
\* trees is on top depends on the order of the unordered_map and on the heap
\* algorithm of the library: each of them may be.
top(heap) == {t \in heap : \A o \in heap : ~(get_freq(t) > get_freq(o))}

\* __build_huffman_table: the pairs <<symbol, codeword>> below a tree that was
\* reached with codeword.
RECURSIVE build_huffman_table_walk(_, _)
build_huffman_table_walk(t, codeword) ==
    IF get_symbol(t) # nullopt THEN {<<get_symbol(t), codeword>>}
    ELSE build_huffman_table_walk(get_left(t), Append(codeword, "0"))
         \cup build_huffman_table_walk(get_right(t), Append(codeword, "1"))

\* build_huffman_table(tree)
build_huffman_table(t) ==
    [sym \in {p[1] : p \in build_huffman_table_walk(t, <<>>)} |->
        (CHOOSE p \in build_huffman_table_walk(t, <<>>) : p[1] = sym)[2]]

\* HuffmanEncoder(os, tree)
HuffmanEncoder(t) ==
    [table |-> build_huffman_table(t), off_left |-> 8, unwritten_bits |-> 0,
     os |-> <<>>, done |-> 0]

\* put_sym: the body of the loop for one character c of the codeword.
put_bit(e, c) ==
    LET bit == IF c # "0" THEN 1 ELSE 0
    IN  IF e.off_left = 0
        THEN [e EXCEPT !.off_left = 7, !.os = Append(e.os, e.unwritten_bits),
                       !.unwritten_bits = bit]
        ELSE [e EXCEPT !.off_left = e.off_left - 1,
                       !.unwritten_bits = (e.unwritten_bits * 2 + bit) % 256]

RECURSIVE put_codeword(_, _)
put_codeword(e, codeword) ==
    IF codeword = <<>> THEN e
    ELSE put_codeword(put_bit(e, Head(codeword)), Tail(codeword))

\* put_sym(symbol)
put_sym(e, symbol) == put_codeword(e, e.table[symbol])

\* finalize(): off_left & 7 is 0 for off_left 0 and 8.
finalize(e) ==
    IF e.off_left % 8 # 0
    THEN [e EXCEPT !.os = Append(e.os, (e.unwritten_bits * 2 ^ e.off_left) % 256),
                   !.off_left = 8]
    ELSE [e EXCEPT !.off_left = 8]

\* HuffmanDecoder(is, tree), is holding the bytes `bytes`
HuffmanDecoder(bytes, t) ==
    [curr |-> t, off_left |-> 0, unread_bits |-> 0, is |-> bytes, pos |-> 0,
     eof |-> FALSE, out |-> <<>>]

\* get_sym: the branch taken for the bit at off_left of unread_bits.
branch(d) ==
    IF (d.unread_bits \div (2 ^ d.off_left)) % 2 = 1 THEN get_right(d.curr)
    ELSE get_left(d.curr)

\* get_sym: is.get() when no unread bit is left; at the end of the stream
\* get() returns EOF, which as a char has all bits set.
get_byte(d) ==
    IF d.pos < Len(d.is)
    THEN [d EXCEPT !.off_left = 7, !.unread_bits = d.is[d.pos + 1], !.pos = d.pos + 1]
    ELSE [d EXCEPT !.off_left = 7, !.unread_bits = 255, !.eof = TRUE]

\* get_sym(): the decoder it leaves and the symbol it returns, or nullopt.
RECURSIVE get_sym(_, _)
get_sym(d, t) ==
    IF get_symbol(d.curr) # nullopt
    THEN [d |-> [d EXCEPT !.curr = t], sym |-> get_symbol(d.curr)]
    ELSE IF d.off_left = 0
    THEN IF get_byte(d).eof THEN [d |-> get_byte(d), sym |-> nullopt]
         ELSE get_sym([get_byte(d) EXCEPT !.curr = branch(get_byte(d))], t)
    ELSE get_sym([d EXCEPT !.off_left = d.off_left - 1,
                           !.curr = branch([d EXCEPT !.off_left = d.off_left - 1])], t)

\* ---- the run: build the tree, encode the sequence, decode the bytes
\* build_huffman_tree: one pass of while (min_heap.size() > 1)
HfMerge ==
    /\ hfpc = "build"
    /\ Cardinality(min_heap) > 1
    /\ \E l \in top(min_heap) : \E r \in top(min_heap \ {l}) :
          min_heap' = (min_heap \ {l, r}) \cup {HuffmanNode(l, r)}
    /\ UNCHANGED <<syms, tree, encoder, decoder, hfpc>>
    /\ UNCHANGED not_hf

\* build_huffman_tree returns the last tree; HuffmanEncoder encoder {os, tree}
HfBuilt ==
    /\ hfpc = "build"
    /\ Cardinality(min_heap) = 1
    /\ \E t \in min_heap :
          /\ tree' = t
          /\ encoder' = HuffmanEncoder(t)
    /\ min_heap' = {}
    /\ hfpc' = "encode"
    /\ UNCHANGED <<syms, decoder>>
    /\ UNCHANGED not_hf

\* encoder.put_sym(s) for the next symbol of the sequence
HfPutSym ==
    /\ hfpc = "encode"
    /\ encoder.done < Len(syms)
    /\ encoder' = [put_sym(encoder, syms[encoder.done + 1]) EXCEPT !.done = encoder.done + 1]
    /\ UNCHANGED <<syms, min_heap, tree, decoder, hfpc>>
    /\ UNCHANGED not_hf

\* encoder.finalize(); HuffmanDecoder decoder {is, tree} on the bytes written
HfFinalize ==
    /\ hfpc = "encode"
    /\ encoder.done = Len(syms)
    /\ encoder' = finalize(encoder)
    /\ decoder' = HuffmanDecoder(finalize(encoder).os, tree)
    /\ hfpc' = "decode"
    /\ UNCHANGED <<syms, min_heap, tree>>
    /\ UNCHANGED not_hf

\* decoder.get_sym(), as many times as symbols were encoded
HfGetSym ==
    /\ hfpc = "decode"
    /\ Len(decoder.out) < Len(syms)
    /\ decoder' = [get_sym(decoder, tree).d EXCEPT
                       !.out = Append(decoder.out, get_sym(decoder, tree).sym)]
    /\ UNCHANGED <<syms, min_heap, tree, encoder, hfpc>>
    /\ UNCHANGED not_hf

\* build_huffman_tree(begin, end) of a non-empty symbol sequence
InitHF ==
    /\ syms \in UNION {[1..n -> Symbols] : n \in 1..MaxLen}
    /\ min_heap = trees_storage(syms)
    /\ tree = <<>>
    /\ encoder = <<>>
    /\ decoder = <<>>
    /\ hfpc = "build"
    /\ Others("hf")

NextHF ==
    \/ HfMerge
    \/ HfBuilt
    \/ HfPutSym
    \/ HfFinalize
    \/ HfGetSym

SpecHF == InitHF /\ [][NextHF]_vars

\* ------------------------------------------------- reading the tree
\* Bound of every downward walk: a path longer than the arena repeats a node.
Depth == Cardinality(Nodes) + 1

\* The nodes met from n through left/right links, n included.
RECURSIVE Reach(_, _, _)
Reach(h, n, seen) ==
    IF n = NULL \/ n \in seen THEN seen
    ELSE Reach(h, h.right[n], Reach(h, h.left[n], seen \cup {n}))

\* The tree the caller holds: what its root handle reaches.
Tree == Reach(Heap, root, {})

\* In-order sequence below n; <<NULL>> stands for a walk that does not end.
RECURSIVE InOrderSeq(_, _, _)
InOrderSeq(h, n, fuel) ==
    IF n = NULL THEN <<>>
    ELSE IF fuel = 0 THEN <<NULL>>
    ELSE InOrderSeq(h, h.left[n], fuel - 1) \o <<n>> \o InOrderSeq(h, h.right[n], fuel - 1)

InOrder == InOrderSeq(Heap, root, Depth)

\* Black nodes on every path from n down to a null link, the null counted as
\* one (as _test_rb_tree_properties counts); 0 when two paths disagree.
RECURSIVE BlackCount(_, _, _)
BlackCount(h, n, fuel) ==
    IF n = NULL THEN 1
    ELSE IF fuel = 0 THEN 0
    ELSE LET l == BlackCount(h, h.left[n], fuel - 1)
             r == BlackCount(h, h.right[n], fuel - 1)
         IN  IF l = 0 \/ r = 0 \/ l # r THEN 0
             ELSE l + (IF is_black(h, n) THEN 1 ELSE 0)

NoRedRed(h, n) ==
    is_red(h, n) =>
        /\ (h.left[n] # NULL => is_black(h, h.left[n]))
        /\ (h.right[n] # NULL => is_black(h, h.right[n]))

\* _test_rb_tree_properties(root, nr_black_nodes): the black count of the
\* paths below n, the null counted as one; 0 when an assertion fails (a red
\* node without parent, a red node whose parent is red, two counts that differ).
RECURSIVE test_rb_tree_properties(_, _, _)
test_rb_tree_properties(h, n, fuel) ==
    IF n = NULL THEN 1
    ELSE IF fuel = 0 THEN 0
    ELSE IF is_red(h, n) /\ is_root(h, n) THEN 0
    ELSE IF is_red(h, n) /\ is_red(h, h.parent[n]) THEN 0
    ELSE LET l == test_rb_tree_properties(h, h.left[n], fuel - 1)
             r == test_rb_tree_properties(h, h.right[n], fuel - 1)
         IN  IF l = 0 \/ r = 0 \/ l # r THEN 0
             ELSE l + (IF is_black(h, n) THEN 1 ELSE 0)

Unattached(h, n) ==
    /\ h.left[n] = NULL
    /\ h.right[n] = NULL
    /\ h.parent[n] = NULL
    /\ h.color[n] = Black

Returned == status = "ok"

IsInsert(o) == o.op \in {"insert_left", "insert_right"}
IsRemove(o) == o.op = "remove"

\* Position of x in sequence q, 0 when absent.
Pos(q, x) == IF \E i \in 1..Len(q) : q[i] = x
             THEN CHOOSE i \in 1..Len(q) : q[i] = x
             ELSE 0
\* q with n placed at index i, and q without its element at index i.
PutAt(q, i, n) == SubSeq(q, 1, i - 1) \o <<n>> \o SubSeq(q, i, Len(q))
DropAt(q, i) == SubSeq(q, 1, i - 1) \o SubSeq(q, i + 1, Len(q))

\* ================================================================ claims

\* C1: after any sequence of insertions and removals that returned, the root
\* (if any) is black and no red node of the tree has a red child.
C1_Coloring ==
    Returned /\ root # NULL =>
        /\ is_black(Heap, root)
        /\ \A n \in Tree : NoRedRed(Heap, n)

\* C2: after any sequence of insertions and removals that returned, every path
\* from the root down to a null link passes the same number of black nodes.
C2_BlackHeight ==
    Returned /\ root # NULL => BlackCount(Heap, root, Depth) # 0

\* C3: an insertion puts the new node immediately before (insert_left) or
\* after (insert_right) the node it was inserted at in the in-order sequence
\* and changes nothing else; a removal deletes exactly the removed node.
C3_InOrderStep ==
    Returned' =>
        /\ lastOp'.op = "insert_left" =>
              /\ Pos(InOrder, lastOp'.at) # 0
              /\ InOrder' = PutAt(InOrder, Pos(InOrder, lastOp'.at), lastOp'.node)
        /\ lastOp'.op = "insert_right" =>
              /\ Pos(InOrder, lastOp'.at) # 0
              /\ InOrder' = PutAt(InOrder, Pos(InOrder, lastOp'.at) + 1, lastOp'.node)
        /\ lastOp'.op = "remove" =>
              /\ Pos(InOrder, lastOp'.node) # 0
              /\ InOrder' = DropAt(InOrder, Pos(InOrder, lastOp'.node))

C3_InOrderPreserved == [][C3_InOrderStep]_vars

\* C4: when the swap of remove() on a node z with two children completes, the
\* successor s stands exactly where z stood and z where s stood, on both paths.
SwapOutcome(h, g, z, s) ==
    LET P == h.parent[z]
        viaRight == s = h.right[z]
    IN  /\ g.parent[s] = P
        /\ P # NULL => get_child(g, P, get_dir(h, z)) = s
        /\ g.left[s] = h.left[z]
        /\ g.parent[h.left[z]] = s
        /\ IF viaRight THEN g.right[s] = z /\ g.parent[z] = s
           ELSE /\ g.right[s] = h.right[z]
                /\ g.parent[h.right[z]] = s
                /\ g.parent[z] = h.parent[s]
                /\ g.left[h.parent[s]] = z
        /\ g.color[s] = h.color[z]
        /\ g.color[z] = h.color[s]
        /\ g.right[z] = h.right[s]
        /\ g.left[z] = NULL

C4_SwapPlaces ==
    Returned =>
        \A z \in members :
            (left[z] # NULL /\ right[z] # NULL /\ inorder_next(Heap, z).st = "ok") =>
                LET g == remove_swap(Heap, z)
                IN  g.st = "ok" /\ SwapOutcome(Heap, g, z, inorder_next(Heap, z).node)

\* C5: when z.remove() returns, z has no left, right or parent link and is
\* Black, whatever its position, color and number of children were.
C5_RemovedReset ==
    Returned /\ IsRemove(lastOp) => Unattached(Heap, lastOp.node)

\* C6: when z.remove() returns, no node that remains a member holds a left,
\* right or parent link to z.
C6_NoLinkToRemoved ==
    Returned /\ IsRemove(lastOp) =>
        \A n \in members : lastOp.node \notin {left[n], right[n], parent[n]}

\* C7: inserting nodes and then removing all of them goes through (no call
\* fails to return), leaves the tree empty and leaves every node unattached.
C7_RoundTrip ==
    phase # "mixed" =>
        /\ Returned
        /\ (phase = "drain" /\ members = {}) =>
              /\ root = NULL
              /\ \A n \in 1..created : Unattached(Heap, n)

\* C8: after remove() on a root with children, get_root() on the child the
\* caller kept returns the new root: a remaining member without parent, not
\* the removed node.
C8_RootFromKeptChild ==
    Returned /\ IsRemove(lastOp) /\ lastOp.wasRoot /\ lastOp.kids > 0 =>
        /\ root # lastOp.node
        /\ root \in members
        /\ parent[root] = NULL

\* C9: after an insertion, and after the removal of a node that is not the
\* root, get_root() on the former root returns the current root: the only
\* member without parent, from which every member is reached.
C9_RootFromFormerRoot ==
    Returned /\ (IsInsert(lastOp) \/ (IsRemove(lastOp) /\ ~lastOp.wasRoot)) =>
        /\ root \in members
        /\ parent[root] = NULL
        /\ \A n \in members : parent[n] = NULL => n = root
        /\ members \subseteq Tree

\* C10 (Scenario A): from the single root 1, inserting 2 as the right child of
\* 1 and then 3 as the right child of 2 takes the line case once and yields
\* exactly root 2 (Black) with left 1 (Red) and right 3 (Red), no other child.
ScenarioA_Tree ==
    /\ root = 2
    /\ color[2] = Black /\ parent[2] = NULL /\ left[2] = 1 /\ right[2] = 3
    /\ color[1] = Red /\ parent[1] = 2 /\ left[1] = NULL /\ right[1] = NULL
    /\ color[3] = Red /\ parent[3] = 2 /\ left[3] = NULL /\ right[3] = NULL
    /\ Tree = {1, 2, 3}

C10_ScenarioAStep ==
    (/\ created = 2
     /\ lastOp.op = "insert_right" /\ lastOp.at = 1 /\ lastOp.node = 2
     /\ lastOp'.op = "insert_right" /\ lastOp'.at = 2 /\ lastOp'.node = 3)
    => /\ Returned'
       /\ ScenarioA_Tree'
       /\ lastOp'.log = <<"line">>
       /\ lastOp'.rot = 1

C10_ScenarioA == [][C10_ScenarioAStep]_vars

C10_Witness ==
    /\ Returned
    /\ created = 3
    /\ lastOp.op = "insert_right" /\ lastOp.at = 2 /\ lastOp.node = 3
    /\ InOrder = <<1, 2, 3>>
    /\ ScenarioA_Tree

\* A leaf: no children.  An inner node: its two children (NULL for none).
Leaf(n, c, p) == color[n] = c /\ parent[n] = p /\ left[n] = NULL /\ right[n] = NULL
Inner(n, c, p, l, r) == color[n] = c /\ parent[n] = p /\ left[n] = l /\ right[n] = r

InsertedRight(o, e, n) == o.op = "insert_right" /\ o.at = e /\ o.node = n

\* C11 (Scenario B): from the Scenario A tree, inserting 4 as the right child
\* of 3 takes the red-uncle case, then the root case that blackens the root
\* again, without rotation, and yields exactly root 2 (Black), left 1 (Black),
\* right 3 (Black) whose only child is its right child 4 (Red).
ScenarioB_Tree ==
    /\ root = 2
    /\ Inner(2, Black, NULL, 1, 3)
    /\ Leaf(1, Black, 2)
    /\ Inner(3, Black, 2, NULL, 4)
    /\ Leaf(4, Red, 3)
    /\ Tree = {1, 2, 3, 4}

C11_ScenarioBStep ==
    (/\ phase = "build" /\ created = 3 /\ ScenarioA_Tree
     /\ InsertedRight(lastOp', 3, 4))
    => /\ Returned'
       /\ ScenarioB_Tree'
       /\ lastOp'.log = <<"red_uncle", "root">>
       /\ lastOp'.rot = 0

C11_ScenarioB == [][C11_ScenarioBStep]_vars

C11_Witness ==
    /\ Returned /\ phase = "build" /\ created = 4
    /\ InsertedRight(lastOp, 3, 4)
    /\ InOrder = <<1, 2, 3, 4>>
    /\ ScenarioB_Tree

\* C12 (Scenario C): from the Scenario B tree, inserting 5 as the right child
\* of 4 takes the line case once, with one rotation below the root, and yields
\* exactly root 2 (Black), left 1 (Black), right 4 (Black) with left 3 (Red)
\* and right 5 (Red).
ScenarioC_Tree ==
    /\ root = 2
    /\ Inner(2, Black, NULL, 1, 4)
    /\ Leaf(1, Black, 2)
    /\ Inner(4, Black, 2, 3, 5)
    /\ Leaf(3, Red, 4)
    /\ Leaf(5, Red, 4)
    /\ Tree = {1, 2, 3, 4, 5}

C12_ScenarioCStep ==
    (/\ phase = "build" /\ created = 4 /\ ScenarioB_Tree
     /\ InsertedRight(lastOp', 4, 5))
    => /\ Returned'
       /\ ScenarioC_Tree'
       /\ lastOp'.log = <<"line">>
       /\ lastOp'.rot = 1

C12_ScenarioC == [][C12_ScenarioCStep]_vars

C12_Witness ==
    /\ Returned /\ phase = "build" /\ created = 5
    /\ InsertedRight(lastOp, 4, 5)
    /\ InOrder = <<1, 2, 3, 4, 5>>
    /\ ScenarioC_Tree

\* C13 (triangle scenario): from the Scenario C tree with 6 inserted as the
\* left child of 1, inserting 7 as the right child of 6 (triangle, no uncle)
\* yields exactly root 2 (Black), left 7 (Black) with children 6 (Red) and
\* 1 (Red), right 4 (Black) with children 3 (Red) and 5 (Red).
TrianglePre_Tree ==
    /\ root = 2
    /\ Inner(2, Black, NULL, 1, 4)
    /\ Inner(1, Black, 2, 6, NULL)
    /\ Leaf(6, Red, 1)
    /\ Inner(4, Black, 2, 3, 5)
    /\ Leaf(3, Red, 4)
    /\ Leaf(5, Red, 4)
    /\ Tree = {1, 2, 3, 4, 5, 6}

Triangle_Tree ==
    /\ root = 2
    /\ Inner(2, Black, NULL, 7, 4)
    /\ Inner(7, Black, 2, 6, 1)
    /\ Leaf(6, Red, 7)
    /\ Leaf(1, Red, 7)
    /\ Inner(4, Black, 2, 3, 5)
    /\ Leaf(3, Red, 4)
    /\ Leaf(5, Red, 4)
    /\ Tree = {1, 2, 3, 4, 5, 6, 7}

C13_TriangleStep ==
    /\ (/\ phase = "build" /\ created = 5 /\ ScenarioC_Tree
        /\ lastOp'.op = "insert_left" /\ lastOp'.at = 1 /\ lastOp'.node = 6)
       => /\ Returned' /\ TrianglePre_Tree' /\ lastOp'.log = <<"black_parent">>
    /\ (/\ phase = "build" /\ created = 6 /\ TrianglePre_Tree
        /\ InsertedRight(lastOp', 6, 7))
       => /\ Returned'
          /\ Triangle_Tree'
          /\ lastOp'.log = <<"triangle", "line">>
          /\ lastOp'.rot = 2

C13_Triangle == [][C13_TriangleStep]_vars

C13_Witness ==
    /\ Returned /\ phase = "build" /\ created = 7
    /\ InsertedRight(lastOp, 6, 7)
    /\ InOrder = <<6, 7, 1, 2, 3, 4, 5>>
    /\ Triangle_Tree

\* C14 (Scenario D): removing 4, black with the red leaves 3 and 5 and with its
\* successor 5 as right child, from the Scenario C tree and from the triangle
\* tree, puts 5 in the place of 4 with 3 as its left child, and the tree then
\* passes the recursive check of the test.
C14_ScenarioDStep ==
    (/\ phase = "build"
     /\ \/ created = 5 /\ ScenarioC_Tree
        \/ created = 7 /\ Triangle_Tree
     /\ lastOp'.op = "remove" /\ lastOp'.node = 4)
    => /\ Returned'
       /\ lastOp'.path = "direct"
       /\ root' = 2
       /\ right'[2] = 5 /\ parent'[5] = 2
       /\ left'[5] = 3 /\ right'[5] = NULL
       /\ left'[3] = NULL /\ right'[3] = NULL
       /\ left'[2] = left[2]
       /\ 4 \notin Tree'
       /\ test_rb_tree_properties(Heap', root', Depth) # 0

C14_ScenarioD == [][C14_ScenarioDStep]_vars

C14_Witness ==
    /\ Returned /\ phase = "drain" /\ created = 7
    /\ lastOp.op = "remove" /\ lastOp.node = 4 /\ lastOp.path = "direct"
    /\ members = {1, 2, 3, 5, 6, 7}
    /\ root = 2 /\ left[2] = 7 /\ right[2] = 5 /\ left[5] = 3
    /\ test_rb_tree_properties(Heap, root, Depth) # 0

\* C15: every insert_left, insert_right, remove and get_root call the caller
\* makes by the documented protocol terminates: no fix-up loop, successor
\* search or parent walk runs forever.
C15_Terminates == status # "hang"

\* ---------------------------------------------- reading the hash table
\* The nodes a sequence holds.
Range(q) == {q[i] : i \in 1..Len(q)}

\* The keys stored in table t, and the (key, value) pairs in iteration order.
StoredKeys(t) == {t.node[e].key : e \in Range(elements(t))}
StoredPairs(t) == [i \in 1..Len(elements(t)) |->
                      <<t.node[elements(t)[i]].key, t.node[elements(t)[i]].value>>]

NoEqualKeys(t) ==
    \A i, j \in 1..Len(elements(t)) :
        t.node[elements(t)[i]].key = t.node[elements(t)[j]].key => i = j

AllBucketsEmpty(t) == \A i \in 0..(bucket_count(t) - 1) : bucket_size(t, i) = 0

\* C16: insert(pair) on a stored key returns the existing element and false
\* and changes neither size() nor any stored pair; on an absent key it returns
\* the new element and true and size() grows by one; and after every call the
\* table holds no two elements with equal keys.
C16_InsertStep ==
    /\ htOp'.op = "insert" =>
          IF htOp'.key \in StoredKeys(Table)
          THEN /\ ~htOp'.inserted
               /\ htOp'.elem \in Range(elements(Table))
               /\ node[htOp'.elem].key = htOp'.key
               /\ nr_elements' = nr_elements
               /\ StoredPairs(Table') = StoredPairs(Table)
          ELSE /\ htOp'.inserted
               /\ htOp'.elem \notin Range(elements(Table))
               /\ htOp'.elem \in Range(elements(Table'))
               /\ node'[htOp'.elem].key = htOp'.key
               /\ node'[htOp'.elem].value = htOp'.value
               /\ nr_elements' = nr_elements + 1
    /\ NoEqualKeys(Table')

C16_InsertOnce == [][C16_InsertStep]_vars

\* C17: find(key) returns an iterator to an element with that key whenever the
\* key is stored, wherever the element sits in its bucket, and end() otherwise.
C17_Find ==
    \A key \in Keys :
        IF key \in StoredKeys(Table)
        THEN /\ ~iter_eq(find(Table, key), end(Table))
             /\ node[iter_elem(Table, find(Table, key))].key = key
        ELSE iter_eq(find(Table, key), end(Table))

\* C18: after every insert and operator[] call size() / bucket_count() is at
\* most 0.75, and a call that adds an element to a table with fewer than
\* ceil((size() + 1) / 0.75) buckets gives the table at least that many.
C18_LoadStep ==
    htOp'.op \in {"insert", "subscript"} =>
        /\ 4 * nr_elements' <= 3 * Len(buckets')
        /\ (htOp'.inserted /\ Len(buckets) < get_nr_buckets_for_elements(nr_elements + 1)) =>
              /\ Len(buckets') # Len(buckets)
              /\ Len(buckets') >= get_nr_buckets_for_elements(nr_elements + 1)

C18_LoadFactor == [][C18_LoadStep]_vars

C18_Witness ==
    /\ htOp.op = "insert" /\ htOp.inserted
    /\ htOp.size = 1 /\ nr_elements = 2
    /\ Len(buckets) = 4

\* C19: erase(it) deletes exactly the element it refers to, size() drops by
\* one, the iterator returned refers to the element that followed it in
\* iteration order (end() after the last one), and erasing from begin() until
\* end() is returned leaves size() 0 and every bucket empty.
C19_EraseStep ==
    htOp'.op = "erase" =>
        /\ nr_elements' = nr_elements - 1
        /\ ~node'[elements(Table)[htOp'.pos]].live
        /\ Range(elements(Table')) = Range(elements(Table)) \ {elements(Table)[htOp'.pos]}
        /\ Len(elements(Table')) = Len(elements(Table)) - 1
        /\ htOp'.elem = (IF htOp'.pos < Len(elements(Table))
                         THEN elements(Table)[htOp'.pos + 1] ELSE NULL)
        /\ erase_all(Table', begin(Table'), MaxAlloc).nr_elements = 0
        /\ AllBucketsEmpty(erase_all(Table', begin(Table'), MaxAlloc))

C19_Erase == [][C19_EraseStep]_vars

\* C20: clear() leaves size() 0 and every bucket empty, with bucket_count()
\* unchanged (and no Node left allocated).
C20_ClearStep ==
    htOp'.op = "clear" =>
        /\ nr_elements' = 0
        /\ AllBucketsEmpty(Table')
        /\ Len(buckets') = Len(buckets)
        /\ \A p \in DOMAIN node' : ~node'[p].live

C20_Clear == [][C20_ClearStep]_vars

C20_Witness ==
    /\ htOp.op = "clear"
    /\ htOp.size = 3
    /\ Len(buckets) = 4
    /\ nr_elements = 0

\* C21: iterating from begin() to end() visits every stored element exactly
\* once: the visit has size() elements, no element twice, and the elements
\* visited are the nodes the table holds, whether the buckets are empty, hold
\* one element or hold several.
C21_IterateAll ==
    /\ Len(elements(Table)) = nr_elements
    /\ \A i, j \in 1..Len(elements(Table)) :
           elements(Table)[i] = elements(Table)[j] => i = j
    /\ Range(elements(Table)) = {p \in 1..Len(node) : node[p].live}

\* A table with an empty bucket, a bucket of one element and a bucket of two.
C21_Witness ==
    /\ nr_elements = 3
    /\ \E i, j, k \in 0..(bucket_count(Table) - 1) :
          /\ bucket_size(Table, i) = 0
          /\ bucket_size(Table, j) = 1
          /\ bucket_size(Table, k) = 2

\* ---------------------------------------------- reading the union-find

\* C22: a resize to a larger size leaves the existing sets unchanged and
\* makes each new index its own singleton set; and in an object that was
\* only constructed and resized, find(i) == i for every index below the size.
C22_ResizeStep ==
    ufOp'.op = "resize" /\ size(uf') > size(uf) =>
        /\ \A i, j \in 0..(size(uf) - 1) : connected(uf', i, j) = connected(uf, i, j)
        /\ \A i \in size(uf)..(size(uf') - 1) :
              /\ uf_find(uf', i).r = i
              /\ \A j \in 0..(size(uf') - 1) : connected(uf', i, j) = (i = j)
        /\ (\A i \in 0..(size(uf) - 1) : ufMerged[i + 1] = {i}) =>
              \A i \in 0..(size(uf') - 1) : uf_find(uf', i).r = i
C22_Resize == [][C22_ResizeStep]_vars

\* A resize to a larger size of an object whose indices 0 and 1 are one set.
C22_Witness ==
    /\ ufOp.op = "resize" /\ ufOp.x > ufOp.y /\ ufOp.y >= 2
    /\ connected(uf, 0, 1)

\* C23: after merge(x, y), connected(x, y) is true and stays true under
\* every later merge and find, and connectivity is transitive: any two
\* indices linked by a chain of the merge calls made so far are connected,
\* equal indices and already connected pairs included.
C23_MergeConnects ==
    /\ ufOp.op = "merge" => connected(uf, ufOp.x, ufOp.y)
    /\ \A i \in 0..(size(uf) - 1) : \A j \in ufMerged[i + 1] : connected(uf, i, j)

\* merge(i, j) and merge(j, k) have linked three indices, and a merge of an
\* already connected pair followed.
C23_Witness ==
    /\ ufOp.op = "merge" /\ ufOp.x # ufOp.y
    /\ size(uf) = 3 /\ ufMerged[1] = {0, 1, 2}
    /\ \E i \in 1..3 : uf.rank[i] = 3

\* C24: no false negatives: once insert(x) has been called,
\* probably_contains(x) is true and definitely_missing(x) is false after any
\* number of later inserts; definitely_missing(y) is the negation of
\* probably_contains(y) for every item; a filter with no inserts reports
\* every item as definitely missing.
C24_NoFalseNegative ==
    /\ \A x \in bfInserted : probably_contains(bits, x) /\ ~definitely_missing(bits, x)
    /\ \A y \in Items : definitely_missing(bits, y) = ~probably_contains(bits, y)
    /\ bfInserted = {} => \A y \in Items : definitely_missing(bits, y)

\* Several inserts were made, an item whose hashes exceed the capacity among
\* them, and another item is still reported missing.
C24_Witness ==
    /\ {15, 143} \subseteq bfInserted
    /\ Cardinality(bfInserted) >= 3
    /\ \E y \in Items \ bfInserted : definitely_missing(bits, y)

\* ------------------------------------------------ reading the KMP search

\* pat occurs in str at index k.
OccursAt(str, pat, k) ==
    /\ k + Len(pat) <= Len(str)
    /\ \A m \in 1..Len(pat) : str[k + m] = pat[m]

\* std::string::find: the index of the first occurrence, or npos.
StringFind(str, pat) ==
    IF \E k \in 0..Len(str) : OccursAt(str, pat, k)
    THEN CHOOSE k \in 0..Len(str) :
            OccursAt(str, pat, k) /\ \A m \in 0..(k - 1) : ~OccursAt(str, pat, m)
    ELSE npos

\* C26: kmp_str_find(str, pat) returns the index of the first occurrence of
\* pat in str, npos when there is none, and kmp_find_pattern returns the
\* iterator to the first occurrence, for every text and every non-empty
\* pattern: the call returns, and returns these.
C26_KmpFind ==
    /\ kmp.pc # "hang"
    /\ kmp.pc = "done" =>
          /\ kmp.result = StringFind(kmp.str, kmp.pat)
          /\ StringFind(kmp.str, kmp.pat) # npos => kmp.match = StringFind(kmp.str, kmp.pat)

\* -------------------------------------------- reading the Huffman coding

\* C25: round trip: with the tree built from a non-empty sequence s, the
\* first |s| get_sym() calls on the bytes the encoder wrote (put_sym for each
\* symbol, then finalize()) return exactly the symbols of s in order,
\* whatever the number of code bits modulo 8 and the number of distinct
\* symbols.
C25_RoundTrip ==
    hfpc = "decode" =>
        \A i \in 1..Len(decoder.out) : decoder.out[i] = syms[i]

\* ------------------------------------------- links and fix-up passes

\* C27: after every completed insert_left / insert_right / remove, every
\* node n the root reaches is the parent of its left and of its right child
\* and is the left or right child of its own parent, the root has no parent,
\* and every link of a member points to a member.
C27_LinksConsistent ==
    Returned /\ (IsInsert(lastOp) \/ IsRemove(lastOp)) =>
        /\ root # NULL => parent[root] = NULL
        /\ \A n \in Tree :
              /\ left[n] # NULL => parent[left[n]] = n
              /\ right[n] # NULL => parent[right[n]] = n
              /\ parent[n] # NULL => n \in {left[parent[n]], right[parent[n]]}
        /\ \A n \in members : {left[n], right[n], parent[n]} \subseteq members \cup {NULL}

\* The heap of insertion o when its fix-up starts: the new node is linked
\* below o.at and Red.
Linked(o) ==
    IF o.op = "insert_left" THEN [insert_common(Heap, o.at, o.node) EXCEPT !.left[o.at] = o.node]
    ELSE [insert_common(Heap, o.at, o.node) EXCEPT !.right[o.at] = o.node]

\* The passes of the insertion fix-up that starts at node n of heap h: for
\* each pass the heap before it (h), the node it runs on (z) and what the
\* step returns (r: the heap after it and the node of the next pass).
RECURSIVE InsertPasses(_, _, _)
InsertPasses(h, n, fuel) ==
    IF fuel = 0 THEN <<>>
    ELSE LET r == insert_fixup_step(h, n)
         IN  <<[h |-> h, z |-> n, r |-> r]>> \o
             (IF r.h.st # "ok" \/ r.next = NULL THEN <<>>
              ELSE InsertPasses(r.h, r.next, fuel - 1))

\* z has a red parent and a black or absent uncle.
BlackUncle(h, z) ==
    /\ h.parent[z] # NULL /\ is_red(h, h.parent[z]) /\ h.parent[h.parent[z]] # NULL
    /\ LET uncle == get_child(h, h.parent[h.parent[z]], opposite(get_dir(h, h.parent[z])))
       IN  uncle = NULL \/ is_black(h, uncle)
TriangleShape(h, z) == BlackUncle(h, z) /\ get_dir(h, z) # get_dir(h, h.parent[z])
LineShape(h, z) == BlackUncle(h, z) /\ get_dir(h, z) = get_dir(h, h.parent[z])

\* In heap a node up has taken the place node n had in heap b, and n is the
\* child of up on side dir: n was rotated to side dir.
RotatedTo(b, a, n, up, dir) ==
    /\ a.parent[up] = b.parent[n]
    /\ b.parent[n] # NULL => get_child(a, b.parent[n], get_dir(b, n)) = up
    /\ a.parent[n] = up
    /\ get_child(a, up, dir) = n

\* The tree below root r is a red-black tree with consistent links.
WellFormed(h, r) ==
    r # NULL =>
        /\ h.parent[r] = NULL /\ is_black(h, r)
        /\ BlackCount(h, r, Depth) # 0
        /\ \A n \in Reach(h, r, {}) :
              /\ NoRedRed(h, n)
              /\ h.left[n] # NULL => h.parent[h.left[n]] = n
              /\ h.right[n] # NULL => h.parent[h.right[n]] = n

\* C28: insert fix-up with a black or absent uncle.  In the triangle shape
\* the parent is rotated away from z's side and the next pass runs on the old
\* parent and is the line case; the line case recolors the parent Black and
\* the grandparent Red, rotates the grandparent away from the parent's side
\* and is the last pass, leaving a red-black tree.
C28_PassOK(ps, i) ==
    LET b == ps[i].h
        a == ps[i].r.h
        z == ps[i].z
        p == b.parent[z]
        g == b.parent[p]
    IN  /\ TriangleShape(b, z) =>
              /\ RotatedTo(b, a, p, z, opposite(get_dir(b, z)))
              /\ a.color = b.color
              /\ ps[i].r.next = p
              /\ i < Len(ps) /\ ps[i + 1].z = p /\ LineShape(ps[i + 1].h, p)
        /\ LineShape(b, z) =>
              /\ a.color = [b.color EXCEPT ![p] = Black, ![g] = Red]
              /\ RotatedTo(b, a, g, p, opposite(get_dir(b, p)))
              /\ ps[i].r.next = NULL /\ i = Len(ps)
              /\ WellFormed(Heap', root')

C28_BlackUncleStep ==
    IsInsert(lastOp') /\ status' = "ok" =>
        LET ps == InsertPasses(Linked(lastOp'), lastOp'.node, Depth)
        IN  \A i \in 1..Len(ps) : C28_PassOK(ps, i)
Spliced(z) == remove_detach(remove_swap(Heap, z), z)
Replacer(z) == remove_replacer(remove_swap(Heap, z), z)

\* The passes of the removal fix-up that starts at node n of heap h.
RECURSIVE RemovePasses(_, _, _)
RemovePasses(h, n, fuel) ==
    IF fuel = 0 THEN <<>>
    ELSE LET r == remove_fixup_step(h, n)
         IN  <<[h |-> h, z |-> n, r |-> r]>> \o
             (IF r.h.st # "ok" \/ r.next = NULL THEN <<>>
              ELSE RemovePasses(r.h, r.next, fuel - 1))

\* The passes of the removal of z: none when z (after the swap) is Red.
PassesOfRemove(z) ==
    IF remove_swap(Heap, z).st # "ok" \/ Spliced(z).color[z] # Black THEN <<>>
    ELSE RemovePasses(Spliced(z), Replacer(z), 2 * Depth)

\* The sibling of x, and the children of the sibling on x's side (near) and
\* on the sibling's own side (far).
Sibling(h, x) == get_child(h, h.parent[x], opposite(get_dir(h, x)))
Near(h, x) == get_child(h, Sibling(h, x), get_dir(h, x))
Far(h, x) == get_child(h, Sibling(h, x), opposite(get_dir(h, x)))
IsRedNode(h, n) == n # NULL /\ is_red(h, n)

RedSiblingCase(h, x) == IsRedNode(h, Sibling(h, x))
NearRedCase(h, x) ==
    /\ Sibling(h, x) # NULL /\ is_black(h, Sibling(h, x))
    /\ IsRedNode(h, Near(h, x)) /\ ~IsRedNode(h, Far(h, x))
FarRedCase(h, x) ==
    /\ Sibling(h, x) # NULL /\ is_black(h, Sibling(h, x))
    /\ IsRedNode(h, Far(h, x))

\* C29: the passes of the removal fix-up at a black node x that is not the
\* root.  The sibling examined is never null.  The red-sibling pass leaves
\* the sibling Black and the parent Red, rotates the parent toward x's side,
\* and the next pass, at x, sees a black sibling.  The near-child-red pass
\* leaves the near child Black and the sibling Red, rotates the sibling away
\* from x's side, and the next pass, at x, is the far-child-red case.  The
\* far-child-red pass ends the fix-up: no pass at a black non-root node
\* follows it (only the root may still be colored Black).
C29_PassOK(ps, i) ==
    LET b == ps[i].h
        a == ps[i].r.h
        x == ps[i].z
        p == b.parent[x]
        dir == get_dir(b, x)
    IN  ~is_root(b, x) /\ is_black(b, x) =>
          /\ Sibling(b, x) # NULL
          /\ RedSiblingCase(b, x) =>
                /\ a.color = [b.color EXCEPT ![Sibling(b, x)] = Black, ![p] = Red]
                /\ RotatedTo(b, a, p, Sibling(b, x), dir)
                /\ i < Len(ps) /\ ps[i + 1].z = x
                /\ Sibling(a, x) # NULL /\ is_black(a, Sibling(a, x))
          /\ NearRedCase(b, x) =>
                /\ a.color = [b.color EXCEPT ![Near(b, x)] = Black, ![Sibling(b, x)] = Red]
                /\ RotatedTo(b, a, Sibling(b, x), Near(b, x), opposite(dir))
                /\ i < Len(ps) /\ ps[i + 1].z = x
                /\ FarRedCase(a, x)
          /\ FarRedCase(b, x) =>
                \A k \in (i + 1)..Len(ps) : is_root(ps[k].h, ps[k].z)

C29_RemoveCasesStep ==
    IsRemove(lastOp') =>
        \A i \in 1..Len(PassesOfRemove(lastOp'.node)) :
            C29_PassOK(PassesOfRemove(lastOp'.node), i)
C29_RemoveCases == [][C29_RemoveCasesStep]_vars

\* The rotation a fix-up pass makes: the heap it is called on (after the
\* recolorings of the pass), the node rotated and the direction; n is NULL
\* for a pass that does not rotate.
NoRotation(h) == [h |-> h, n |-> NULL, dir |-> Left]
RotationOfInsertPass(b, z) ==
    IF TriangleShape(b, z)
    THEN [h |-> b, n |-> b.parent[z], dir |-> opposite(get_dir(b, z))]
    ELSE IF LineShape(b, z)
    THEN [h |-> [b EXCEPT !.color[b.parent[z]] = Black,
                          !.color[b.parent[b.parent[z]]] = Red],
          n |-> b.parent[b.parent[z]], dir |-> opposite(get_dir(b, z))]
    ELSE NoRotation(b)
RotationOfRemovePass(b, x) ==
    IF is_root(b, x) \/ is_red(b, x) \/ Sibling(b, x) = NULL THEN NoRotation(b)
    ELSE IF RedSiblingCase(b, x)
    THEN [h |-> [b EXCEPT !.color[Sibling(b, x)] = Black, !.color[b.parent[x]] = Red],
          n |-> b.parent[x], dir |-> get_dir(b, x)]
    ELSE IF NearRedCase(b, x)
    THEN [h |-> [b EXCEPT !.color[Near(b, x)] = Black, !.color[Sibling(b, x)] = Red],
          n |-> Sibling(b, x), dir |-> opposite(get_dir(b, x))]
    ELSE IF FarRedCase(b, x)
    THEN [h |-> [b EXCEPT !.color[Sibling(b, x)] = b.color[b.parent[x]],
                          !.color[b.parent[x]] = Black,
                          !.color[Far(b, x)] = Black],
          n |-> b.parent[x], dir |-> get_dir(b, x)]
    ELSE NoRotation(b)

\* Heap a is heap h after rotate(dir) on node n, whose child on the opposite
\* side is c: c has n's former parent and n's place under it, n is c's child
\* on side dir, c's former subtree on side dir is n's child on the opposite
\* side, and no other link and no color differs.
RotateOK(h, n, dir, a) ==
    LET c == get_child(h, n, opposite(dir))
        p == h.parent[n]
        inner == get_child(h, c, dir)
    IN  c # NULL =>
          /\ a.st = "ok"
          /\ a.parent[c] = p
          /\ p # NULL => \E d \in {Left, Right} : get_child(h, p, d) = n /\ get_child(a, p, d) = c
          /\ a.parent[n] = c /\ get_child(a, c, dir) = n
          /\ get_child(a, n, opposite(dir)) = inner
          /\ inner # NULL => a.parent[inner] = n
          /\ a.color = h.color
          /\ \A m \in DOMAIN h.parent :
                /\ m \notin {n, c, inner} => a.parent[m] = h.parent[m]
                /\ \A d \in {Left, Right} :
                      \/ m = p /\ get_child(h, p, d) = n
                      \/ m = c /\ d = dir
                      \/ m = n /\ d = opposite(dir)
                      \/ get_child(a, m, d) = get_child(h, m, d)

C30_PassOK(call, a) == call.n # NULL => RotateOK(call.h, call.n, call.dir, a)

\* C30: every rotation the fix-up passes of an insertion or a removal make.
\* The rotated node's child c on the opposite side takes the node's place
\* under the node's former parent (c has no parent when the node was the
\* root), the node becomes c's child on the side of the rotation, c's former
\* subtree on that side becomes the node's child on the opposite side with
\* the node as parent, and every other link and every color stays as it was.
C30_RotateStep ==
    /\ IsInsert(lastOp') =>
          LET ps == InsertPasses(Linked(lastOp'), lastOp'.node, Depth)
          IN  \A i \in 1..Len(ps) :
                 C30_PassOK(RotationOfInsertPass(ps[i].h, ps[i].z), ps[i].r.h)
    /\ IsRemove(lastOp') =>
          LET ps == PassesOfRemove(lastOp'.node)
          IN  \A i \in 1..Len(ps) :
                 C30_PassOK(RotationOfRemovePass(ps[i].h, ps[i].z), ps[i].r.h)
C30_Rotate == [][C30_RotateStep]_vars

\* The nodes the buckets of table t hold, and the nodes that are allocated.
StoredNodes(t) == {nodes_from(t, 0)[i] : i \in 1..Len(nodes_from(t, 0))}
LiveNodes(t) == {p \in DOMAIN t.node : t.node[p].live}
Pairs(t) == [p \in LiveNodes(t) |-> <<t.node[p].key, t.node[p].value>>]

\* Every node of bucket index has a key that hashes to index.
PlacedIn(t, index) ==
    \A j \in 1..bucket_size(t, index) :
        hasher(t.node[bucket_nodes(t, index)[j]].key) % bucket_count(t) = index

HtConsistent(t) ==
    /\ bucket_count(t) # 0
    /\ \A index \in 0..(bucket_count(t) - 1) : PlacedIn(t, index)
    /\ t.nr_elements = Len(nodes_from(t, 0))
    /\ Cardinality(StoredNodes(t)) = Len(nodes_from(t, 0))
    /\ StoredNodes(t) = LiveNodes(t)

\* C31: whatever insert, operator[], erase, clear and reserve calls were made,
\* there is at least one bucket, every node is in the bucket its key hashes
\* to, size() is the number of nodes in the buckets, every allocated node is
\* in the buckets exactly once, and a call that changes the number of buckets
\* (a rehash) keeps the key and the value of every node stored before it.
C31_RehashStep ==
    /\ HtConsistent(Table) /\ HtConsistent(Table')
    /\ bucket_count(Table') # bucket_count(Table) =>
          /\ LiveNodes(Table) \subseteq LiveNodes(Table')
          /\ \A p \in LiveNodes(Table) : Pairs(Table')[p] = Pairs(Table)[p]
          /\ htOp'.op = "reserve" => Pairs(Table') = Pairs(Table)
C31_Rehash == [][C31_RehashStep]_vars

\* A reserve call has moved two nodes of one bucket into different buckets
\* of a bucket count that is not a power of two.
C31_Witness ==
    /\ htOp.op = "reserve"
    /\ bucket_count(Table) = 3
    /\ nr_elements >= 2
    /\ \E i, j \in 0..2 : i # j /\ bucket_size(Table, i) > 0 /\ bucket_size(Table, j) > 0

\* C32: connected(x, y) is true exactly when x = y or a chain of the merge
\* calls made so far links x and y.  A merge(x, y) connects exactly the pairs
\* that were connected before and the pairs taken from the sets of x and y;
\* a find changes no answer of connected.
C32_ExactStep ==
    /\ \A i, j \in 0..(size(uf') - 1) : connected(uf', i, j) <=> (j \in ufMerged'[i + 1])
    /\ ufOp'.op = "merge" =>
          \A i, j \in 0..(size(uf) - 1) :
              connected(uf', i, j) <=>
                  \/ connected(uf, i, j)
                  \/ /\ connected(uf, i, ufOp'.x) \/ connected(uf, i, ufOp'.y)
                     /\ connected(uf, j, ufOp'.x) \/ connected(uf, j, ufOp'.y)
    /\ ufOp'.op = "find" =>
          \A i, j \in 0..(size(uf) - 1) : connected(uf', i, j) <=> connected(uf, i, j)
C32_Exact == [][C32_ExactStep]_vars

\* A find has compressed a path: the index it was called on had a parent
\* that was not the root and is now a child of the root.
C32_Witness ==
    /\ ufOp.op = "find"
    /\ ufOp.y # ufOp.x
    /\ uf.parent[ufOp.x + 1] # ufOp.y

\* The bits put_sym has been given for the first n symbols of the sequence:
\* the codewords of the table one after the other, as numbers 0 and 1.
RECURSIVE CodeBits(_, _)
CodeBits(table, q) ==
    IF q = <<>> THEN <<>>
    ELSE [k \in 1..Len(table[Head(q)]) |-> IF table[Head(q)][k] = "0" THEN 0 ELSE 1]
         \o CodeBits(table, Tail(q))

\* Byte number k (from 1) of a bit sequence packed most significant bit
\* first, the bits past the end of the sequence being zero.
RECURSIVE ByteValue(_, _, _)
ByteValue(b, k, n) ==
    IF n = 0 THEN 0
    ELSE 2 * ByteValue(b, k, n - 1)
         + (IF 8 * (k - 1) + n <= Len(b) THEN b[8 * (k - 1) + n] ELSE 0)
Packed(b) == [k \in 1..((Len(b) + 7) \div 8) |-> ByteValue(b, k, 8)]

\* C33: when finalize() returns, the stream holds the bits of all codewords
\* put so far, most significant bit first, in ceil(bits / 8) bytes of which
\* the last is padded with zero bits; a second finalize() writes nothing.
C33_FinalizeStep ==
    hfpc = "encode" /\ hfpc' = "decode" =>
        /\ encoder'.os = Packed(CodeBits(encoder.table, syms))
        /\ finalize(encoder').os = encoder'.os
C33_Finalize == [][C33_FinalizeStep]_vars

\* The length of the longest proper prefix of the first n characters of pat
\* that is also a suffix of them.
IsBorder(pat, n, len) == \A k \in 1..len : pat[k] = pat[n - len + k]
LongestBorder(pat, n) ==
    CHOOSE len \in 0..(n - 1) :
        /\ IsBorder(pat, n, len)
        /\ \A more \in (len + 1)..(n - 1) : ~IsBorder(pat, n, more)
FailureTable(pat) == [n \in 1..Len(pat) |-> LongestBorder(pat, n)]

\* C34: when build_lps returns, lps[i] is, for every index i of the pattern,
\* the length of the longest proper prefix of pattern[0..i] that is also a
\* suffix of it.
C34_LpsStep ==
    kmp.pc = "lps_for" /\ kmp'.pc = "scan_for" => kmp'.lps = FailureTable(kmp.pat)
C34_Lps == [][C34_LpsStep]_vars

\* C35: build_lps and kmp_find_pattern_raw terminate: no fallback j = lps[j]
\* leaves j as it was, each one makes j smaller.
C35_TerminatesStep ==
    /\ kmp'.pc # "hang"
    /\ kmp.pc \in {"lps_while", "scan_while"} /\ kmp'.pc = kmp.pc => kmp'.j < kmp.j
C35_Terminates == [][C35_TerminatesStep]_vars

\* The pass from heap b to heap a changed no link.
OnlyRecolors(b, a) == a.left = b.left /\ a.right = b.right /\ a.parent = b.parent

\* C36: one insert_left or insert_right makes at most 2 rotations and one
\* remove at most 3; every fix-up pass other than the rotating ones (black
\* uncle for insertion; red sibling, near child red, far child red for
\* removal) changes colors only.
C36_RotationsStep ==
    /\ IsInsert(lastOp') =>
          /\ lastOp'.rot <= 2
          /\ LET ps == InsertPasses(Linked(lastOp'), lastOp'.node, Depth)
             IN  \A i \in 1..Len(ps) :
                    RotationOfInsertPass(ps[i].h, ps[i].z).n = NULL =>
                        OnlyRecolors(ps[i].h, ps[i].r.h)
    /\ IsRemove(lastOp') =>
          /\ lastOp'.rot <= 3
          /\ LET ps == PassesOfRemove(lastOp'.node)
             IN  \A i \in 1..Len(ps) :
                    RotationOfRemovePass(ps[i].h, ps[i].z).n = NULL =>
                        OnlyRecolors(ps[i].h, ps[i].r.h)
C36_Rotations == [][C36_RotationsStep]_vars

\* The indices of the set of index i, and the roots of the object.
SetOf(u, i) == {j \in 0..(size(u) - 1) : connected(u, i, j)}
IsRootIndex(u, r) == u.parent[r + 1] = r

\* C37: union by rank.  After a merge of two sets the root of the smaller
\* rank has the root of the larger rank as parent; a merge of two indices of
\* one set changes no rank; every root r has at least 2^(rank[r] - 1)
\* indices in its set.
C37_RankStep ==
    /\ ufOp'.op = "merge" /\ ~connected(uf, ufOp'.x, ufOp'.y) =>
          LET rx == find_const(uf, ufOp'.x)
              ry == find_const(uf, ufOp'.y)
          IN  /\ uf.rank[rx + 1] < uf.rank[ry + 1] => uf'.parent[rx + 1] = ry
              /\ uf.rank[ry + 1] < uf.rank[rx + 1] => uf'.parent[ry + 1] = rx
    /\ ufOp'.op = "merge" /\ connected(uf, ufOp'.x, ufOp'.y) => uf'.rank = uf.rank
    /\ \A r \in 0..(size(uf') - 1) :
          IsRootIndex(uf', r) => Cardinality(SetOf(uf', r)) >= 2 ^ (uf'.rank[r + 1] - 1)
C37_Rank == [][C37_RankStep]_vars

\* How often symbol sym appears in the sequence, and the symbols that appear.
Freq(sym) == Cardinality({i \in 1..Len(syms) : syms[i] = sym})
Appearing == {syms[i] : i \in 1..Len(syms)}
IsPrefix(a, b) == Len(a) <= Len(b) /\ \A k \in 1..Len(a) : a[k] = b[k]

\* Every tree below t is a leaf or has a left and a right subtree.
RECURSIVE TwoSubtrees(_)
TwoSubtrees(t) ==
    \/ Len(t) = 2
    \/ /\ Len(t) = 3 /\ get_left(t) # <<>> /\ get_right(t) # <<>>
       /\ TwoSubtrees(get_left(t)) /\ TwoSubtrees(get_right(t))

\* C38: for a sequence in which at least two symbols appear, the table built
\* from the tree gives every appearing symbol a non-empty codeword of '0' and
\* '1', no codeword is a prefix of the codeword of another symbol, every
\* internal node of the tree has two subtrees, the frequency of the root is
\* the sum of the frequencies, and a symbol that appears more often than
\* another never has the longer codeword.
C38_Table ==
    hfpc \in {"encode", "decode"} /\ Cardinality(Appearing) >= 2 =>
        /\ DOMAIN encoder.table = Appearing
        /\ \A a \in Appearing :
              /\ Len(encoder.table[a]) >= 1
              /\ \A k \in 1..Len(encoder.table[a]) : encoder.table[a][k] \in {"0", "1"}
        /\ \A a, b \in Appearing : a # b => ~IsPrefix(encoder.table[a], encoder.table[b])
        /\ TwoSubtrees(tree)
        /\ get_freq(tree) = Len(syms)
        /\ \A a, b \in Appearing :
              Freq(a) > Freq(b) => Len(encoder.table[a]) <= Len(encoder.table[b])

\* The table of three symbols of three different frequencies was built: the
\* most frequent symbol has one bit, the other two have two.
C38_Witness ==
    /\ hfpc = "encode" /\ encoder.done = 0
    /\ Cardinality(Appearing) = 3
    /\ \A a, b \in Appearing : a # b => Freq(a) # Freq(b)
    /\ \E a \in Appearing : Len(encoder.table[a]) = 1
    /\ \E a \in Appearing : Len(encoder.table[a]) = 2

=============================================================================
